---- MODULE Spec2Model ----
(***************************************************************************)
(* Transaction envelopes and the signature aggregator of                   *)
(* crates/sui-types/src/messages.rs.                                       *)
(*                                                                         *)
(* The specifications share the variables:                                 *)
(*   SpecEnv     one envelope value driven through construction, digest(), *)
(*               assignment to its public fields, clone, serialization and *)
(*               the conversions between the three signing states;         *)
(*   Spec        one client transaction, one committee and the             *)
(*               SignatureAggregators the client builds over them;         *)
(*   SpecKeep    as Spec over a valid user transaction, the client keeping *)
(*               certificates an aggregator returned;                      *)
(*   SpecDigest  threads calling digest() on one shared envelope;          *)
(*   SpecData    input_objects() and validity_check() of a TransactionData;*)
(*   SpecVerify  verification of a received envelope against a committee;  *)
(*   SpecCompare equality, hash and serialized form of two envelopes;      *)
(*   SpecQuorum  aggregators fed valid signatures over one transaction and *)
(*               then another, a certificate kept;                         *)
(*   SpecLive    one aggregator and a quorum of signers that do sign,      *)
(*               under fairness;                                           *)
(*   SpecVerifyTwice  verify called a second time on a received envelope;  *)
(*   SpecEffects is_object_mutated_here() of TransactionEffects;           *)
(*   SpecConsensus    ConsensusTransaction built, verified and read;       *)
(*   SpecNode    the components SuiNode::start of crates/sui-node/src/     *)
(*               lib.rs brings up for a NodeConfig.                        *)
(* Committee, the signature schemes and sha3_hash live in committee.rs     *)
(* and crypto.rs; they are modelled from their documented contracts.       *)
(***************************************************************************)
EXTENDS Integers, Sequences, FiniteSets, TLC

VARIABLES committee, env, agg, call, res, ret, kept, threads, once, td, out,
          other, signers

\* The threads calling digest() on a shared envelope and the state of its cell.
digestVars == <<threads, once>>

\* What the aggregator and the single-owner envelope operations never touch.
\* A TransactionData and what the last call on it returned; out is also what
\* a comparison of env with the envelope other returned.
dataVars == <<td, out>>

\* signers: the authorities that are going to sign the transaction of the
\* aggregator.
otherVars == <<digestVars, dataVars, other, signers>>

vars == <<committee, env, agg, call, res, ret, kept, otherVars>>

-----------------------------------------------------------------------------
(* Bounds *)

\* Authority public keys are 1..NumNames, ordered as the keys are ordered.
NumNames == 3
\* Largest total stake of a committee.
MaxTotalStake == 4

\* Threads sharing one envelope.
NumThreads == 2
\* Calls of digest() each thread makes.
MaxCalls == 2

\* Object ids a transaction may name.
NumObjects == 2
\* Longest vector of objects: the coins of a Pay, an ObjVec argument.
MaxRefs == 2
\* Most arguments of a Move call.
MaxArgs == 1
\* Most members of a Batch.
MaxBatch == 2

Names == 1..NumNames
Threads == 1..NumThreads
ObjectIDs == 1..NumObjects

-----------------------------------------------------------------------------
(* Transaction data, sender signatures, digests *)

UserData == [kind |-> "TransferObject", sender |-> "alice"]
SystemData == [kind |-> "ChangeEpoch", sender |-> "zero"]
Datas == {UserData, SystemData}

\* A sender signature names the key that made it and the data it covers.
SenderSigs == [signer : {"alice", "mallory"}, over : {UserData}]

SenderSignedData == [data : Datas, tx_signature : SenderSigs]

\* Mutant: no transaction counts as a system transaction.
IsSystemTxNever(data) == FALSE

is_system_tx(data) == data.kind = "ChangeEpoch"

\* Signature::verify(data, sender)
SenderSigVerify(sig, data, sender) == sig.signer = sender /\ sig.over = data

DataCode(data) == IF data = UserData THEN 1 ELSE 2
SigCode(sig) == IF sig.signer = "alice" THEN 1 ELSE 2

\* sha3_hash of a SenderSignedData: a digest value, distinct for distinct
\* contents.
sha3_hash(sd) == 16 * DataCode(sd.data) + SigCode(sd.tx_signature)

Digests == {sha3_hash(sd) : sd \in SenderSignedData}

\* The empty OnceCell.
NoDigest == 0

-----------------------------------------------------------------------------
(* Authority signatures and sign infos *)


\* Another signed_data than sd: the same data under the other sender signature.
OtherSignedData(sd) ==
    [sd EXCEPT !.tx_signature.signer = IF @ = "alice" THEN "mallory" ELSE "alice"]

\* The signatures offered to an aggregator over sd: by every key, over sd or
\* over other signed data.
SigsOffered(sd) == [signer : Names, over : {sd, OtherSignedData(sd)}]

\* AuthoritySignature::new(signed_data, secret)
AuthoritySign(sd, secret) == [signer |-> secret, over |-> sd]

\* AuthoritySignature::verify(signed_data, authority)
AuthoritySigVerify(sig, sd, authority) == sig.signer = authority /\ sig.over = sd

EmptySignInfo == [kind |-> "Empty"]

AuthoritySignInfo(epoch, authority, signature) ==
    [kind |-> "Authority", epoch |-> epoch, authority |-> authority,
     signature |-> signature]

\* AuthorityStrongQuorumSignInfo: signers_map is the bitmap of committee
\* indices, signature the aggregate, kept as the sequence of the signatures
\* it combines.
QuorumSignInfo(epoch, signers_map, signature) ==
    [kind |-> "Quorum", epoch |-> epoch, signers_map |-> signers_map,
     signature |-> signature]

\* AuthorityStrongQuorumSignInfo::new(epoch)
QuorumSignInfoNew(epoch) == QuorumSignInfo(epoch, {}, <<>>)

-----------------------------------------------------------------------------
(* Envelopes *)

Envelope(variant, cell, verified, sd, info) ==
    [variant |-> variant, transaction_digest |-> cell, is_verified |-> verified,
     signed_data |-> sd, auth_sign_info |-> info]

\* No envelope (an empty Option, a moved-out value).
NoEnv == Envelope("None", NoDigest, FALSE,
                  [data |-> UserData, tx_signature |-> [signer |-> "alice", over |-> UserData]],
                  EmptySignInfo)

\* Transaction::new(data, signature)
TransactionNew(data, signature) ==
    Envelope("Transaction", NoDigest, FALSE,
             [data |-> data, tx_signature |-> signature], EmptySignInfo)

\* SignedTransaction::new(epoch, transaction, authority, secret)
SignedTransactionNew(epoch, transaction, authority, secret) ==
    Envelope("Signed", NoDigest, transaction.is_verified, transaction.signed_data,
             AuthoritySignInfo(epoch, authority,
                               AuthoritySign(transaction.signed_data, secret)))

\* CertifiedTransaction::new(epoch, transaction)
CertifiedTransactionNew(epoch, transaction) ==
    Envelope("Certified", transaction.transaction_digest, FALSE,
             transaction.signed_data, QuorumSignInfoNew(epoch))

\* SignedTransaction::to_transaction, CertifiedTransaction::to_transaction
to_transaction(e) == TransactionNew(e.signed_data.data, e.signed_data.tx_signature)

\* The value digest() returns.
digest(e) ==
    IF e.transaction_digest # NoDigest THEN e.transaction_digest
    ELSE sha3_hash(e.signed_data)

\* The envelope after digest(): get_or_init fills an empty cell.
AfterDigest(e) == [e EXCEPT !.transaction_digest = digest(e)]

\* derive(Clone): every field is copied, the cell included.
CloneEnvelope(e) ==
    Envelope(e.variant, e.transaction_digest, e.is_verified, e.signed_data,
             e.auth_sign_info)

\* Serialize then deserialize: the two serde(skip) fields come back as their
\* defaults.
SerdeRoundTrip(e) == [e EXCEPT !.transaction_digest = NoDigest, !.is_verified = FALSE]

\* Mutant: the sender signature is never looked at.
VerifySenderSkipped(e) == "Ok"

\* The serialized form: the type name written by the name adapter and the
\* fields that are not serde(skip).
Serialize(e) ==
    [type_name |-> e.variant, signed_data |-> e.signed_data,
     auth_sign_info |-> e.auth_sign_info]

\* Deserialization sets the skipped fields to their defaults.
Deserialize(bytes) ==
    Envelope(bytes.type_name, NoDigest, FALSE, bytes.signed_data,
             bytes.auth_sign_info)

\* derive(PartialEq) of SenderSignedData
SenderSignedDataEq(a, b) == a.data = b.data /\ a.tx_signature = b.tx_signature

\* Mutant: equality as derive(PartialEq) on the envelope would give it.
EnvelopeEqDerived(a, b) == a = b

\* PartialEq of Transaction and of SignedTransaction
EnvelopeEq(a, b) ==
    IF a.variant = "Transaction" THEN SenderSignedDataEq(a.signed_data, b.signed_data)
    ELSE /\ SenderSignedDataEq(a.signed_data, b.signed_data)
         /\ a.auth_sign_info = b.auth_sign_info

\* Hash of Transaction and of SignedTransaction: what is fed to the hasher.
EnvelopeHash(e) ==
    IF e.variant = "Transaction" THEN <<e.signed_data>>
    ELSE <<e.signed_data, e.auth_sign_info>>

\* TransactionEnvelope::verify_sender_signature
verify_sender_signature(e) ==
    IF e.is_verified \/ is_system_tx(e.signed_data.data) THEN "Ok"
    ELSE IF SenderSigVerify(e.signed_data.tx_signature, e.signed_data.data,
                            e.signed_data.data.sender) THEN "Ok"
    ELSE "InvalidSignature"

\* Mutant: the transaction is not verified.
TransactionVerifySkipped(e) == "Ok"

\* Transaction::verify
TransactionVerify(e) == verify_sender_signature(e)

-----------------------------------------------------------------------------
(* Committee *)

RECURSIVE SumFrom(_, _)
\* Sum of the stakes of the keys k..NumNames.
SumFrom(f, k) == IF k > NumNames THEN 0 ELSE f[k] + SumFrom(f, k + 1)

\* voting_rights maps every key to its stake; a key outside the committee
\* has stake 0. Some authority has stake.
Committees ==
    {c \in [epoch : {1}, voting_rights : [Names -> 0..MaxTotalStake]] :
        LET total == SumFrom(c.voting_rights, 1)
        IN  total > 0 /\ total <= MaxTotalStake}

Members(c) == {a \in Names : c.voting_rights[a] > 0}

\* Committee::weight
weight(c, authority) == c.voting_rights[authority]

RECURSIVE StakeOf(_, _)
\* Summed stake of a set of authorities.
StakeOf(c, S) ==
    IF S = {} THEN 0
    ELSE LET a == CHOOSE x \in S : TRUE
         IN  weight(c, a) + StakeOf(c, S \ {a})

total_stake(c) == StakeOf(c, Names)

\* Committee::quorum_threshold
quorum_threshold(c) == (2 * total_stake(c)) \div 3 + 1

\* Committee::validity_threshold
validity_threshold(c) == total_stake(c) \div 3 + 1

\* Committee::authority_index: position of the key among the members in key
\* order, counted from 0.
authority_index(c, authority) == Cardinality({b \in Members(c) : b < authority})

\* Committee::authority_by_index
HasIndex(c, i) == i >= 0 /\ i < Cardinality(Members(c))
authority_by_index(c, i) == CHOOSE a \in Members(c) : authority_index(c, a) = i

-----------------------------------------------------------------------------
(* Quorum sign info *)

RECURSIVE InsertByKey(_, _)
\* Stable insertion of one (authority, signature) pair into a sequence sorted
\* by authority key.
InsertByKey(sorted, pair) ==
    IF sorted = <<>> THEN <<pair>>
    ELSE IF pair.authority < Head(sorted).authority THEN <<pair>> \o sorted
    ELSE <<Head(sorted)>> \o InsertByKey(Tail(sorted), pair)

RECURSIVE SortByKey(_)
\* signatures.sort_by_key(|(public_key, _)| *public_key)
SortByKey(signatures) ==
    IF signatures = <<>> THEN <<>>
    ELSE InsertByKey(SortByKey(SubSeq(signatures, 1, Len(signatures) - 1)),
                     signatures[Len(signatures)])

StashAuthorities(signatures) == {signatures[k].authority : k \in 1..Len(signatures)}

\* The bitmap new_with_signatures builds: the committee index of every signer.
SignerBitmap(signatures, c) ==
    {authority_index(c, signatures[k].authority) : k \in 1..Len(signatures)}

\* The aggregate of the signatures in key order.
Aggregate(signatures) ==
    LET sorted == SortByKey(signatures)
    IN  [k \in 1..Len(sorted) |-> sorted[k].signature]

\* AuthorityStrongQuorumSignInfo::new_with_signatures fails with UnknownSigner
\* when a signer has no index in the committee.
NewWithSignaturesOk(signatures, c) == StashAuthorities(signatures) \subseteq Members(c)

NewWithSignatures(signatures, c) ==
    QuorumSignInfo(c.epoch, SignerBitmap(signatures, c), Aggregate(signatures))

\* Keys a bitmap names in a committee.
BitmapSigners(signers_map, c) ==
    {authority_by_index(c, i) : i \in {j \in signers_map : HasIndex(c, j)}}

\* An aggregate verifies against a set of keys and a message when it combines
\* exactly one signature of each key over that message.
AggregateVerify(signature, keys, sd) ==
    /\ Len(signature) = Cardinality(keys)
    /\ {signature[k].signer : k \in 1..Len(signature)} = keys
    /\ \A k \in 1..Len(signature) : signature[k].over = sd

\* AuthorityStrongQuorumSignInfo::add_to_verification_obligation followed by
\* VerificationObligation::verify_all.
QuorumInfoVerify(info, sd, c) ==
    IF info.epoch # c.epoch THEN "WrongEpoch"
    ELSE IF \E i \in info.signers_map : ~HasIndex(c, i) THEN "UnknownSigner"
    ELSE IF StakeOf(c, BitmapSigners(info.signers_map, c)) < quorum_threshold(c)
         THEN "CertificateRequiresQuorum"
    ELSE IF ~AggregateVerify(info.signature, BitmapSigners(info.signers_map, c), sd)
         THEN "InvalidSignature"
    ELSE "Ok"

\* AuthoritySignInfo::add_to_verification_obligation followed by
\* VerificationObligation::verify_all.
AuthoritySignInfoVerify(info, sd, c) ==
    IF info.epoch # c.epoch THEN "WrongEpoch"
    ELSE IF ~(weight(c, info.authority) > 0) THEN "UnknownSigner"
    ELSE IF ~AuthoritySigVerify(info.signature, sd, info.authority)
         THEN "InvalidSignature"
    ELSE "Ok"

\* SignedTransaction::verify
SignedTransactionVerify(signed, c) ==
    IF verify_sender_signature(signed) # "Ok" THEN verify_sender_signature(signed)
    ELSE AuthoritySignInfoVerify(signed.auth_sign_info, signed.signed_data, c)

\* SignedTransaction::new_change_epoch: sender and gas are placeholders and
\* the sender signature is a fixed byte string that signs nothing.
new_change_epoch(next_epoch, authority, secret) ==
    LET signed_data == [data |-> SystemData,
                        tx_signature |-> [signer |-> "mallory", over |-> UserData]]
    IN  Envelope("Signed", NoDigest, FALSE, signed_data,
                 AuthoritySignInfo(next_epoch, authority,
                                   AuthoritySign(signed_data, secret)))

\* CertifiedTransaction::verify
CertifiedTransactionVerify(cert, c) ==
    IF cert.is_verified THEN "Ok"
    ELSE IF verify_sender_signature(cert) # "Ok" THEN verify_sender_signature(cert)
    ELSE QuorumInfoVerify(cert.auth_sign_info, cert.signed_data, c)

-----------------------------------------------------------------------------
(* SignatureAggregator *)

Aggregator(w, used, partial, stash) ==
    [live |-> TRUE, weight |-> w, used_authorities |-> used, partial |-> partial,
     signature_stash |-> stash]

\* No aggregator built yet.
NoAgg ==
    [live |-> FALSE, weight |-> 0, used_authorities |-> {}, partial |-> NoEnv,
     signature_stash |-> <<>>]

\* SignatureAggregator::new_unsafe
new_unsafe(transaction, c) ==
    Aggregator(0, {}, CertifiedTransactionNew(c.epoch, transaction), <<>>)

\* Mutant: the reuse check comes first, so the signature of a used authority
\* is not verified.
SignatureAcceptedIfUsed(a, authority, signature) ==
    \/ authority \in a.used_authorities
    \/ AuthoritySigVerify(signature, a.partial.signed_data, authority)

\* Mutant: the signature is not verified.
SignatureAcceptedAlways(a, authority, signature) == TRUE

\* signature.verify(&self.partial.signed_data, authority)
SignatureAccepted(a, authority, signature) ==
    AuthoritySigVerify(signature, a.partial.signed_data, authority)

\* Mutant: the reuse check is missing.
AlreadyUsedNever(a, authority) == FALSE

\* The check that each authority only appears once.
AlreadyUsed(a, authority) == authority \in a.used_authorities

\* Mutant: the authority is not recorded as used.
MarkUsedForgotten(a, authority) == a

\* self.used_authorities.insert(authority)
MarkUsed(a, authority) == [a EXCEPT !.used_authorities = @ \cup {authority}]

\* Mutant: the signature is stashed without its weight being added.
StashUnweighed(a, voting_rights, authority, signature) ==
    [a EXCEPT !.signature_stash =
                  Append(@, [authority |-> authority, signature |-> signature])]

\* self.weight += voting_rights; self.signature_stash.push((authority, signature))
Stash(a, voting_rights, authority, signature) ==
    [a EXCEPT !.weight = @ + voting_rights,
              !.signature_stash =
                  Append(@, [authority |-> authority, signature |-> signature])]

\* Mutant: half of the stake is enough.
QuorumReachedHalf(w, c) == 2 * w >= total_stake(c)

\* Mutant: the comparison is strict.
QuorumReachedStrict(w, c) == w > quorum_threshold(c)

\* self.weight >= self.committee.quorum_threshold()
QuorumReached(w, c) == w >= quorum_threshold(c)

\* Mutant: the sign info is built at the first crossing only.
MaterializeOnce(a, c) ==
    IF a.partial.auth_sign_info.signers_map # {} THEN a
    ELSE [a EXCEPT !.partial.auth_sign_info = NewWithSignatures(a.signature_stash, c)]

\* Mutant: the first stashed signature is left out.
MaterializeDropFirst(a, c) ==
    [a EXCEPT !.partial.auth_sign_info = NewWithSignatures(Tail(a.signature_stash), c)]

\* self.partial.auth_sign_info = new_with_signatures(self.signature_stash.clone(), committee)
Materialize(a, c) ==
    [a EXCEPT !.partial.auth_sign_info = NewWithSignatures(a.signature_stash, c)]

Outcome(a, r, cert) == [agg |-> a, res |-> r, ret |-> cert]

\* SignatureAggregator::append: the aggregator after the call, the result and
\* the certificate returned.
append(a, c, authority, signature) ==
    IF ~SignatureAccepted(a, authority, signature)
    THEN Outcome(a, "InvalidSignature", NoEnv)
    ELSE IF AlreadyUsed(a, authority)
    THEN Outcome(a, "CertificateAuthorityReuse", NoEnv)
    ELSE
      LET a1 == MarkUsed(a, authority)
          voting_rights == weight(c, authority)
      IN
      IF ~(voting_rights > 0) THEN Outcome(a1, "UnknownSigner", NoEnv)
      ELSE
        LET a2 == Stash(a1, voting_rights, authority, signature)
        IN
        IF QuorumReached(a2.weight, c)
        THEN IF ~NewWithSignaturesOk(a2.signature_stash, c)
             THEN Outcome(a2, "UnknownSigner", NoEnv)
             ELSE Outcome(Materialize(a2, c), "OkSome",
                          CloneEnvelope(Materialize(a2, c).partial))
        ELSE Outcome(a2, "OkNone", NoEnv)

\* The authorities of the stash in the order they were appended.
StashOrder(a) == [k \in 1..Len(a.signature_stash) |-> a.signature_stash[k].authority]

-----------------------------------------------------------------------------
(* Effects envelopes and the write-once digest cell *)

\* TransactionEffects, told apart by their execution status.
Effects == [status : {"Success", "Failure"}]

\* TransactionEffects::digest
effects_digest(effects) == 64 + (IF effects.status = "Success" THEN 1 ELSE 2)

EffectsEnvelope(cell, effects, info) ==
    [variant |-> "Effects", transaction_effects_digest |-> cell,
     effects |-> effects, auth_signature |-> info]

\* The digest cell of a transaction or effects envelope.
Cell(e) ==
    IF e.variant = "Effects" THEN e.transaction_effects_digest
    ELSE e.transaction_digest

\* The closure digest() hands to get_or_init.
DigestClosure(e) ==
    IF e.variant = "Effects" THEN effects_digest(e.effects)
    ELSE sha3_hash(e.signed_data)

\* The envelope once the cell holds v.
FillCell(e, v) ==
    IF e.variant = "Effects" THEN [e EXCEPT !.transaction_effects_digest = v]
    ELSE [e EXCEPT !.transaction_digest = v]

\* A thread is outside digest() ("idle"), at the cell's state check ("get"),
\* queued behind a running initializer ("wait"), running the closure ("init")
\* or about to publish its value ("store"); waited records that it has queued.
Thread(pc, calls, waited, value, r) ==
    [pc |-> pc, calls |-> calls, waited |-> waited, value |-> value, ret |-> r]

IdleThreads == [t \in Threads |-> Thread("idle", 0, FALSE, NoDigest, NoDigest)]

\* running: an initializer holds the cell; hashes and writes count the
\* closure runs and the cell writes; returned collects what digest() returned.
OnceState(running, hashes, writes, returned) ==
    [running |-> running, hashes |-> hashes, writes |-> writes,
     returned |-> returned]

OnceFresh == OnceState(FALSE, 0, 0, {})

\* Mutant: a thread starts an initializer while another one runs.
MayInitializeRacy(o) == TRUE

\* get_or_init lets one initializer run at a time.
MayInitialize(o) == ~o.running

\* Envelopes threads share: a transaction or signed effects whose cell is
\* empty or was filled before.
SharedEnvelopes ==
    {[TransactionNew(UserData, [signer |-> "alice", over |-> UserData]) EXCEPT
         !.transaction_digest = cell] : cell \in Digests \cup {NoDigest}}
    \cup UNION {{EffectsEnvelope(cell, effects, EmptySignInfo) :
                    cell \in {NoDigest, effects_digest(effects)}} :
                 effects \in Effects}

-----------------------------------------------------------------------------
(* Transaction kinds and their input objects *)

SUI_SYSTEM_STATE_OBJECT_ID == 5

SeqsUpTo(S, n) == UNION {[1..k -> S] : k \in 0..n}

\* An ObjectRef is (object id, version, digest).
ObjectRefs == [object_id : ObjectIDs, version : {1}]

ObjectArgs ==
    [tag : {"ImmOrOwnedObject"}, object_ref : ObjectRefs]
    \cup [tag : {"SharedObject"}, id : ObjectIDs]

CallArgs ==
    {[tag |-> "Pure"]}
    \cup [tag : {"Object"}, arg : ObjectArgs]
    \cup [tag : {"ObjVec"}, vec : SeqsUpTo(ObjectArgs, MaxRefs)]

\* SingleTransactionKind; a Publish is told by the packages its modules
\* depend on, a Call by its package and at most maxArgs arguments.
SingleTransactionKinds(maxArgs) ==
    [tag : {"TransferObject"}, object_ref : ObjectRefs]
    \cup [tag : {"Publish"}, dependent_packages : SUBSET ObjectIDs]
    \cup [tag : {"Call"}, package : ObjectRefs,
          arguments : SeqsUpTo(CallArgs, maxArgs)]
    \cup {[tag |-> "TransferSui"]}
    \cup [tag : {"Pay"}, coins : SeqsUpTo(ObjectRefs, MaxRefs)]
    \cup {[tag |-> "ChangeEpoch"]}

\* TransactionKind; the calls inside a batch take no arguments.
TransactionKinds ==
    [tag : {"Single"}, single : SingleTransactionKinds(MaxArgs)]
    \cup [tag : {"Batch"}, batch : SeqsUpTo(SingleTransactionKinds(0), MaxBatch)]

TransactionData == [kind : TransactionKinds, gas_payment : ObjectRefs]

\* InputObjectKind
MovePackage(id) == [kind |-> "MovePackage", id |-> id]
ImmOrOwnedMoveObject(object_ref) ==
    [kind |-> "ImmOrOwnedMoveObject", object_ref |-> object_ref]
SharedMoveObject(id) == [kind |-> "SharedMoveObject", id |-> id]

\* InputObjectKind::object_id
object_id(o) ==
    IF o.kind = "ImmOrOwnedMoveObject" THEN o.object_ref.object_id ELSE o.id

\* SuiResult
Ok(v) == [err |-> "Ok", val |-> v]
Err(e) == [err |-> e, val |-> <<>>]

RECURSIVE Flatten(_)
Flatten(lists) ==
    IF lists = <<>> THEN <<>> ELSE Head(lists) \o Flatten(Tail(lists))

ObjectArgInput(a) ==
    IF a.tag = "ImmOrOwnedObject" THEN ImmOrOwnedMoveObject(a.object_ref)
    ELSE SharedMoveObject(a.id)

\* What one CallArg contributes: nothing, one object, or the objects of its
\* vector.
CallArgInputs(arg) ==
    IF arg.tag = "Pure" THEN <<>>
    ELSE IF arg.tag = "Object" THEN <<ObjectArgInput(arg.arg)>>
    ELSE [k \in 1..Len(arg.vec) |-> ObjectArgInput(arg.vec[k])]

RECURSIVE SortedIds(_)
\* The ids of a BTreeSet in iteration order.
SortedIds(S) ==
    IF S = {} THEN <<>>
    ELSE LET least == CHOOSE x \in S : \A y \in S : x <= y
         IN  <<least>> \o SortedIds(S \ {least})

\* Transaction::input_objects_in_compiled_modules
input_objects_in_compiled_modules(dependent_packages) ==
    LET ids == SortedIds(dependent_packages)
    IN  [k \in 1..Len(ids) |-> MovePackage(ids[k])]

\* The inputs SingleTransactionKind::input_objects collects for a kind.
CollectedInputs(s) ==
    IF s.tag = "TransferObject" THEN <<ImmOrOwnedMoveObject(s.object_ref)>>
    ELSE IF s.tag = "Call" THEN
        Flatten([k \in 1..Len(s.arguments) |-> CallArgInputs(s.arguments[k])])
            \o <<MovePackage(s.package.object_id)>>
    ELSE IF s.tag = "Publish" THEN
        input_objects_in_compiled_modules(s.dependent_packages)
    ELSE IF s.tag = "TransferSui" THEN <<>>
    ELSE IF s.tag = "Pay" THEN
        [k \in 1..Len(s.coins) |-> ImmOrOwnedMoveObject(s.coins[k])]
    ELSE <<SharedMoveObject(SUI_SYSTEM_STATE_OBJECT_ID)>>

\* Mutant: the duplicate check is missing.
AllInsertedNever(input_objects) == TRUE

\* input_objects.iter().all(|o| used.insert(o.object_id()))
AllInserted(input_objects) ==
    \A j, k \in 1..Len(input_objects) :
        j # k => object_id(input_objects[j]) # object_id(input_objects[k])

\* SingleTransactionKind::input_objects
SingleInputObjects(s) ==
    IF ~AllInserted(CollectedInputs(s)) THEN Err("DuplicateObjectRefInput")
    ELSE Ok(CollectedInputs(s))

\* TransactionKind::single_transactions
single_transactions(kind) ==
    IF kind.tag = "Single" THEN <<kind.single>> ELSE kind.batch

\* TransactionKind::input_objects: the first member error, else the members'
\* lists flattened.
KindInputObjects(kind) ==
    LET results == [k \in 1..Len(single_transactions(kind)) |->
                       SingleInputObjects(single_transactions(kind)[k])]
        failed == {k \in 1..Len(results) : results[k].err # "Ok"}
    IN  IF failed # {}
        THEN results[CHOOSE k \in failed : \A j \in failed : k <= j]
        ELSE Ok(Flatten([k \in 1..Len(results) |-> results[k].val]))

\* Mutant: no kind counts as a system transaction.
KindIsSystemTxNever(kind) == FALSE

\* TransactionKind::is_system_tx
KindIsSystemTx(kind) == kind.tag = "Single" /\ kind.single.tag = "ChangeEpoch"

\* TransactionData::input_objects
DataInputObjects(data) ==
    LET inputs == KindInputObjects(data.kind)
    IN  IF inputs.err # "Ok" THEN inputs
        ELSE IF ~KindIsSystemTx(data.kind)
        THEN Ok(Append(inputs.val, ImmOrOwnedMoveObject(data.gas_payment)))
        ELSE inputs

\* Mutant: TransferSui is let into a batch.
BatchableWithTransferSui(s) == s.tag \in {"Call", "TransferObject", "Pay", "TransferSui"}

\* The kinds validity_check lets be in a batch.
Batchable(s) == s.tag \in {"Call", "TransferObject", "Pay"}

\* TransactionKind::validity_check
validity_check(kind) ==
    IF kind.tag = "Batch" THEN
        IF kind.batch = <<>> THEN Err("InvalidBatchTransaction")
        ELSE IF ~(\A k \in 1..Len(kind.batch) : Batchable(kind.batch[k]))
        THEN Err("InvalidBatchTransaction")
        ELSE Ok(<<>>)
    ELSE Ok(<<>>)

\* The id of a shared ObjectArg, if it is one.
ObjectArgShared(a) == IF a.tag = "SharedObject" THEN <<a.id>> ELSE <<>>

\* The shared ids one CallArg names.
CallArgShared(arg) ==
    IF arg.tag = "Pure" THEN <<>>
    ELSE IF arg.tag = "Object" THEN ObjectArgShared(arg.arg)
    ELSE Flatten([k \in 1..Len(arg.vec) |-> ObjectArgShared(arg.vec[k])])

\* SingleTransactionKind::shared_input_objects
SingleSharedInputObjects(s) ==
    IF s.tag = "Call"
    THEN Flatten([k \in 1..Len(s.arguments) |-> CallArgShared(s.arguments[k])])
    ELSE <<>>

\* TransactionKind::shared_input_objects
KindSharedInputObjects(kind) ==
    Flatten([k \in 1..Len(single_transactions(kind)) |->
                SingleSharedInputObjects(single_transactions(kind)[k])])

\* contains_shared_object: shared_input_objects().next().is_some()
contains_shared_object(kind) == KindSharedInputObjects(kind) # <<>>

\* No TransactionData under test, nothing returned.
NoData == [kind |-> [tag |-> "Single", single |-> [tag |-> "TransferSui"]],
           gas_payment |-> [object_id |-> 1, version |-> 1]]
NoResult == Err("NotCalled")

-----------------------------------------------------------------------------
(* State *)

Call(op, authority) == [op |-> op, authority |-> authority]

\* No certificate kept.
NoKept == [cert |-> NoEnv, order |-> <<>>]

\* Transactions a client holds: built by Transaction::new, then possibly
\* digest() called and is_verified set.
ClientTransactions ==
    UNION {{[TransactionNew(sd.data, sd.tx_signature) EXCEPT
                !.transaction_digest = cell, !.is_verified = v] :
              cell \in {NoDigest, sha3_hash(sd)}, v \in BOOLEAN} :
           sd \in SenderSignedData}

Init ==
    /\ committee \in Committees
    /\ env \in ClientTransactions
    /\ agg = NoAgg
    /\ call = Call("init", 0)
    /\ res = "Ok"
    /\ ret = NoEnv
    /\ kept = NoKept
    /\ threads = IdleThreads
    /\ once = OnceFresh
    /\ td = NoData
    /\ out = NoResult
    /\ other = NoEnv
    /\ signers = {}

-----------------------------------------------------------------------------
(* Aggregator operations *)

\* SignatureAggregator::try_new(transaction.clone(), &committee)
TryNew ==
    /\ call' = Call("try_new", 0)
    /\ res' = TransactionVerify(env)
    /\ agg' = IF TransactionVerify(env) = "Ok" THEN new_unsafe(CloneEnvelope(env), committee)
              ELSE agg
    /\ ret' = NoEnv
    /\ UNCHANGED <<committee, env, kept, otherVars>>

\* SignatureAggregator::new_unsafe(transaction.clone(), &committee)
NewUnsafe ==
    /\ call' = Call("new_unsafe", 0)
    /\ res' = "Ok"
    /\ agg' = new_unsafe(CloneEnvelope(env), committee)
    /\ ret' = NoEnv
    /\ UNCHANGED <<committee, env, kept, otherVars>>

\* aggregator.append(authority, signature)
AppendCall(authority, signature) ==
    /\ agg.live
    /\ \E outcome \in {append(agg, committee, authority, signature)} :
           /\ agg' = outcome.agg
           /\ res' = outcome.res
           /\ ret' = outcome.ret
    /\ call' = Call("append", authority)
    /\ UNCHANGED <<committee, env, kept, otherVars>>

\* The caller keeps the certificate an append just returned.
KeepCertificate ==
    /\ call.op = "append"
    /\ res = "OkSome"
    /\ kept' = [cert |-> ret, order |-> StashOrder(agg)]
    /\ call' = Call("keep", 0)
    /\ UNCHANGED <<committee, env, agg, res, ret, otherVars>>

Next ==
    \/ TryNew
    \/ NewUnsafe
    \/ \E authority \in Names, signature \in SigsOffered(env.signed_data) :
         AppendCall(authority, signature)

Spec == Init /\ [][Next]_vars

\* A client that aggregates a valid user transaction several times over and
\* keeps certificates.
InitKeep ==
    /\ Init
    /\ env = TransactionNew(UserData, [signer |-> "alice", over |-> UserData])

NextKeep == Next \/ KeepCertificate

SpecKeep == InitKeep /\ [][NextKeep]_vars

-----------------------------------------------------------------------------
(* Envelope operations *)

\* Before any envelope exists. The epoch of this committee stamps the sign
\* infos.
InitEnv ==
    /\ committee = [epoch |-> 1, voting_rights |-> [a \in Names |-> 1]]
    /\ env = NoEnv
    /\ agg = NoAgg
    /\ call = Call("init", 0)
    /\ res = "Ok"
    /\ ret = NoEnv
    /\ kept = NoKept
    /\ threads = IdleThreads
    /\ once = OnceFresh
    /\ td = NoData
    /\ out = NoResult
    /\ other = NoEnv
    /\ signers = {}

EnvStep(op, authority, e) ==
    /\ env' = e
    /\ call' = Call(op, authority)
    /\ UNCHANGED <<committee, agg, res, ret, kept, otherVars>>

\* Transaction::new(data, signature)
EnvNew(data, signature) ==
    /\ env' = TransactionNew(data, signature)
    /\ call' = Call("new", 0)
    /\ UNCHANGED <<committee, agg, res, ret, kept, otherVars>>

\* e.digest()
EnvDigest ==
    /\ env.variant # "None"
    /\ EnvStep("digest", 0, AfterDigest(env))

\* e.signed_data = sd (the field is public)
EnvAssignSignedData(sd) ==
    /\ env.variant # "None"
    /\ EnvStep("assign", 0, [env EXCEPT !.signed_data = sd])

\* e.is_verified = v (the field is public)
EnvSetVerified(v) ==
    /\ env.variant # "None"
    /\ EnvStep("set_verified", 0, [env EXCEPT !.is_verified = v])

\* e.clone(), the caller going on with the clone
EnvClone ==
    /\ env.variant # "None"
    /\ EnvStep("clone", 0, CloneEnvelope(env))

\* deserialize(serialize(e))
EnvSerde ==
    /\ env.variant # "None"
    /\ EnvStep("serde", 0, SerdeRoundTrip(env))

\* SignedTransaction::new(epoch, e, authority, secret)
EnvSign(authority, secret) ==
    /\ env.variant = "Transaction"
    /\ EnvStep("sign", authority,
               SignedTransactionNew(committee.epoch, env, authority, secret))

\* CertifiedTransaction::new(epoch, e)
EnvCertify ==
    /\ env.variant = "Transaction"
    /\ EnvStep("certify", 0, CertifiedTransactionNew(committee.epoch, env))

\* e.to_transaction()
EnvToTransaction ==
    /\ env.variant \in {"Signed", "Certified"}
    /\ EnvStep("to_transaction", 0, to_transaction(env))

NextEnv ==
    \/ \E data \in Datas, signature \in SenderSigs : EnvNew(data, signature)
    \/ EnvDigest
    \/ \E sd \in SenderSignedData : EnvAssignSignedData(sd)
    \/ \E v \in BOOLEAN : EnvSetVerified(v)
    \/ EnvClone
    \/ EnvSerde
    \/ \E authority \in Names, secret \in Names : EnvSign(authority, secret)
    \/ EnvCertify
    \/ EnvToTransaction

SpecEnv == InitEnv /\ [][NextEnv]_vars

-----------------------------------------------------------------------------
(* Concurrent digest() *)

InitDigest ==
    /\ committee = [epoch |-> 1, voting_rights |-> [a \in Names |-> 1]]
    /\ env \in SharedEnvelopes
    /\ agg = NoAgg
    /\ call = Call("init", 0)
    /\ res = "Ok"
    /\ ret = NoEnv
    /\ kept = NoKept
    /\ threads = IdleThreads
    /\ once = OnceFresh
    /\ td = NoData
    /\ out = NoResult
    /\ other = NoEnv
    /\ signers = {}

\* Thread t calls digest().
DigestEnter(t) ==
    /\ threads[t].pc = "idle"
    /\ threads[t].calls < MaxCalls
    /\ threads' = [threads EXCEPT ![t] =
                      Thread("get", @.calls + 1, @.waited, NoDigest, NoDigest)]
    /\ UNCHANGED <<committee, env, agg, call, res, ret, kept, once, dataVars, other, signers>>

\* get_or_init finds the cell full and returns what it holds.
DigestReturnCached(t) ==
    /\ threads[t].pc \in {"get", "wait"}
    /\ Cell(env) # NoDigest
    /\ threads' = [threads EXCEPT ![t].pc = "idle", ![t].ret = Cell(env)]
    /\ once' = [once EXCEPT !.returned = @ \cup {Cell(env)}]
    /\ UNCHANGED <<committee, env, agg, call, res, ret, kept, dataVars, other, signers>>

\* get_or_init finds the cell empty and becomes its initializer.
DigestStartInit(t) ==
    /\ threads[t].pc \in {"get", "wait"}
    /\ Cell(env) = NoDigest
    /\ MayInitialize(once)
    /\ threads' = [threads EXCEPT ![t].pc = "init"]
    /\ once' = [once EXCEPT !.running = TRUE]
    /\ UNCHANGED <<committee, env, agg, call, res, ret, kept, dataVars, other, signers>>

\* get_or_init finds the cell empty and an initializer running: it queues.
DigestWait(t) ==
    /\ threads[t].pc = "get"
    /\ Cell(env) = NoDigest
    /\ ~MayInitialize(once)
    /\ threads' = [threads EXCEPT ![t].pc = "wait", ![t].waited = TRUE]
    /\ UNCHANGED <<committee, env, agg, call, res, ret, kept, once, dataVars, other, signers>>

\* The initializer runs the closure.
DigestHash(t) ==
    /\ threads[t].pc = "init"
    /\ threads' = [threads EXCEPT ![t].pc = "store",
                                  ![t].value = DigestClosure(env)]
    /\ once' = [once EXCEPT !.hashes = @ + 1]
    /\ UNCHANGED <<committee, env, agg, call, res, ret, kept, dataVars, other, signers>>

\* The initializer writes the cell, releases it and returns.
DigestStore(t) ==
    /\ threads[t].pc = "store"
    /\ env' = FillCell(env, threads[t].value)
    /\ threads' = [threads EXCEPT ![t].pc = "idle", ![t].ret = threads[t].value]
    /\ once' = [once EXCEPT !.running = FALSE, !.writes = @ + 1,
                            !.returned = @ \cup {threads[t].value}]
    /\ UNCHANGED <<committee, agg, call, res, ret, kept, dataVars, other, signers>>

NextDigest ==
    \E t \in Threads :
        \/ DigestEnter(t)
        \/ DigestReturnCached(t)
        \/ DigestStartInit(t)
        \/ DigestWait(t)
        \/ DigestHash(t)
        \/ DigestStore(t)

SpecDigest == InitDigest /\ [][NextDigest]_vars

-----------------------------------------------------------------------------
(* Calls on a TransactionData *)

\* The envelope machinery stands still; the data under test is any. The
\* calls take &self and return a value: each is made once, on the data as
\* built.
InitData ==
    /\ committee = [epoch |-> 1, voting_rights |-> [a \in Names |-> 1]]
    /\ env = NoEnv
    /\ agg = NoAgg
    /\ call = Call("init", 0)
    /\ res = "Ok"
    /\ ret = NoEnv
    /\ kept = NoKept
    /\ threads = IdleThreads
    /\ once = OnceFresh
    /\ td \in TransactionData
    /\ out = NoResult
    /\ other = NoEnv
    /\ signers = {}

\* td.input_objects()
CallInputObjects ==
    /\ call.op = "init"
    /\ call' = Call("input_objects", 0)
    /\ out' = DataInputObjects(td)
    /\ UNCHANGED <<committee, env, agg, res, ret, kept, digestVars, td, other, signers>>

\* td.kind.input_objects()
CallKindInputObjects ==
    /\ call.op = "init"
    /\ call' = Call("kind_input_objects", 0)
    /\ out' = KindInputObjects(td.kind)
    /\ UNCHANGED <<committee, env, agg, res, ret, kept, digestVars, td, other, signers>>

\* td.kind.validity_check()
CallValidityCheck ==
    /\ call.op = "init"
    /\ call' = Call("validity_check", 0)
    /\ out' = validity_check(td.kind)
    /\ UNCHANGED <<committee, env, agg, res, ret, kept, digestVars, td, other, signers>>

\* td.kind.shared_input_objects()
CallSharedInputObjects ==
    /\ call.op = "init"
    /\ call' = Call("shared_input_objects", 0)
    /\ out' = Ok(KindSharedInputObjects(td.kind))
    /\ UNCHANGED <<committee, env, agg, res, ret, kept, digestVars, td, other, signers>>

NextData ==
    \/ CallInputObjects
    \/ CallKindInputObjects
    \/ CallValidityCheck
    \/ CallSharedInputObjects

SpecData == InitData /\ [][NextData]_vars

-----------------------------------------------------------------------------
(* Verification of received envelopes *)

\* The aggregate of the signatures of the keys S over sd.
AggregateOf(S, sd) ==
    Aggregate([k \in 1..Cardinality(S) |->
                  LET a == SortedIds(S)[k]
                  IN  [authority |-> a, signature |-> AuthoritySign(sd, a)]])

\* Envelopes as they may arrive: any sender signed data, any flag, and any
\* sign info of the variant, well formed or not.
ReceivedEnvelopes ==
    UNION {
        {Envelope("Transaction", NoDigest, v, sd, EmptySignInfo) : v \in BOOLEAN}
        \cup {Envelope("Signed", NoDigest, v, sd,
                       AuthoritySignInfo(epoch, authority, signature)) :
                 v \in BOOLEAN, epoch \in {1, 2}, authority \in Names,
                 signature \in SigsOffered(sd)}
        \cup {Envelope("Certified", NoDigest, v, sd,
                       QuorumSignInfo(1, signers_map, AggregateOf(S, over))) :
                 v \in BOOLEAN, signers_map \in SUBSET (0..(NumNames - 1)),
                 S \in SUBSET Names, over \in {sd, OtherSignedData(sd)}}
        : sd \in SenderSignedData}

InitVerify ==
    /\ committee \in Committees
    /\ env \in ReceivedEnvelopes
    /\ agg = NoAgg
    /\ call = Call("init", 0)
    /\ res = "Ok"
    /\ ret = NoEnv
    /\ kept = NoKept
    /\ threads = IdleThreads
    /\ once = OnceFresh
    /\ td = NoData
    /\ out = NoResult
    /\ other = NoEnv
    /\ signers = {}

VerifyStep(op, result) ==
    /\ call.op = "init"
    /\ call' = Call(op, 0)
    /\ res' = result
    /\ UNCHANGED <<committee, env, agg, ret, kept, otherVars>>

\* env.verify_sender_signature()
VerifySenderSignature ==
    /\ call.op = "init"
    /\ call' = Call("verify_sender_signature", 0)
    /\ res' = verify_sender_signature(env)
    /\ UNCHANGED <<committee, env, agg, ret, kept, otherVars>>

\* SignedTransaction::verify(&committee)
VerifySigned ==
    /\ env.variant = "Signed"
    /\ VerifyStep("verify_signed", SignedTransactionVerify(env, committee))

\* CertifiedTransaction::verify(&committee)
VerifyCertified ==
    /\ env.variant = "Certified"
    /\ VerifyStep("verify_certified", CertifiedTransactionVerify(env, committee))

NextVerify == VerifySenderSignature \/ VerifySigned \/ VerifyCertified

SpecVerify == InitVerify /\ [][NextVerify]_vars

-----------------------------------------------------------------------------
(* Comparison, hashing and serialization of envelopes *)

\* Values of one envelope type that differ in any field: cell empty or
\* filled, flag, sender signed data, sign info.
ComparedEnvelopes(variant) ==
    UNION {
        {Envelope(variant, cell, v, sd, info) :
            cell \in {NoDigest, sha3_hash(sd)}, v \in BOOLEAN,
            info \in IF variant = "Transaction" THEN {EmptySignInfo}
                     ELSE IF variant = "Certified" THEN {QuorumSignInfoNew(1)}
                     ELSE {AuthoritySignInfo(1, a, AuthoritySign(over, a)) :
                              a \in Names, over \in {sd, OtherSignedData(sd)}}}
        : sd \in SenderSignedData}

InitCompare ==
    /\ committee = [epoch |-> 1, voting_rights |-> [a \in Names |-> 1]]
    /\ \E variant \in {"Transaction", "Signed", "Certified"} :
           /\ env \in ComparedEnvelopes(variant)
           /\ other \in ComparedEnvelopes(variant)
    /\ signers = {}
    /\ agg = NoAgg
    /\ call = Call("init", 0)
    /\ res = "Ok"
    /\ ret = NoEnv
    /\ kept = NoKept
    /\ threads = IdleThreads
    /\ once = OnceFresh
    /\ td = NoData
    /\ out = NoResult

CompareStep(op, result) ==
    /\ call.op = "init"
    /\ call' = Call(op, 0)
    /\ out' = result
    /\ UNCHANGED <<committee, env, agg, res, ret, kept, digestVars, td, other, signers>>

\* env == other
CompareEq ==
    /\ env.variant \in {"Transaction", "Signed"}
    /\ CompareStep("eq", EnvelopeEq(env, other))

\* The hashes of env and other.
CompareHash ==
    /\ env.variant \in {"Transaction", "Signed"}
    /\ CompareStep("hash", <<EnvelopeHash(env), EnvelopeHash(other)>>)

\* The serialized forms of env and other.
CompareSerialize ==
    /\ env.variant # "None"
    /\ CompareStep("serialize", <<Serialize(env), Serialize(other)>>)

\* env is sent and received: deserialize(serialize(env)).
CompareDeserialize ==
    /\ call.op = "init"
    /\ call' = Call("deserialize", 0)
    /\ env' = Deserialize(Serialize(env))
    /\ UNCHANGED <<committee, agg, res, ret, kept, otherVars>>

NextCompare == CompareEq \/ CompareHash \/ CompareSerialize \/ CompareDeserialize

SpecCompare == InitCompare /\ [][NextCompare]_vars

-----------------------------------------------------------------------------
(* Type invariant *)

TypeOK ==
    /\ committee \in Committees
    /\ agg.live \in BOOLEAN
    /\ res \in {"Ok", "OkNone", "OkSome", "InvalidSignature",
                "CertificateAuthorityReuse", "UnknownSigner", "WrongEpoch",
                "CertificateRequiresQuorum"}
    /\ env.transaction_digest \in Digests \cup {NoDigest}

-----------------------------------------------------------------------------
(* Properties of the aggregator *)

AppendErrors == {"InvalidSignature", "CertificateAuthorityReuse", "UnknownSigner"}

\* The last call was an append that returned a certificate.
ReturnedCertificate == call.op = "append" /\ res = "OkSome"

\* Summed stake of the distinct authorities accepted so far.
AcceptedStake == StakeOf(committee, StashAuthorities(agg.signature_stash))

\* Accepted stake before the authority of the last call was accepted.
StakeBefore == AcceptedStake - weight(committee, call.authority)

\* The sender signature of the client's transaction is valid.
SenderSigValid ==
    SenderSigVerify(env.signed_data.tx_signature, env.signed_data.data,
                    env.signed_data.data.sender)

\* The keys whose signatures a certificate combines.
CertifiedBy(cert) == BitmapSigners(cert.auth_sign_info.signers_map, committee)

\* The step is an append of the valid signature of authority.
ValidAppend(authority) ==
    AppendCall(authority, AuthoritySign(agg.partial.signed_data, authority))

\* C1: a successful append returns a certificate exactly when the summed
\* stake of the distinct authorities accepted so far, this one included, is
\* at least quorum_threshold; one unit below it returns Ok(None).
C1_CertificateIffQuorum ==
    (call.op = "append" /\ res \in {"OkSome", "OkNone"}) =>
        /\ (res = "OkSome") <=> (AcceptedStake >= quorum_threshold(committee))
        /\ (res = "OkSome") <=> (ret.variant = "Certified")

\* An append of a one-stake authority returned a certificate at exactly
\* quorum_threshold: the append before it stood at quorum_threshold - 1.
C1_Witness ==
    /\ ReturnedCertificate
    /\ AcceptedStake = quorum_threshold(committee)
    /\ weight(committee, call.authority) = 1
    /\ Len(agg.signature_stash) >= 2

\* C2: an append that returns an error leaves the whole aggregator state
\* (weight, used_authorities, signature_stash, partial) as it was.
C2_ErrorLeavesStateUnchanged ==
    [][(call'.op = "append" /\ res' \in AppendErrors) => agg' = agg]_vars

\* C3: in every certificate an append returns, each authority appears at
\* most once among the signers.
C3_SignersAppearOnce ==
    ReturnedCertificate =>
        LET sig == ret.auth_sign_info.signature
        IN  /\ \A j, k \in 1..Len(sig) : j # k => sig[j].signer # sig[k].signer
            /\ Len(sig) = Cardinality(ret.auth_sign_info.signers_map)

\* A certificate of two or more signers returned by an append after quorum.
C3_Witness ==
    /\ ReturnedCertificate
    /\ Len(ret.auth_sign_info.signature) >= 2
    /\ StakeBefore >= quorum_threshold(committee)

\* C4: once an authority of non-zero stake has been accepted, a later append
\* of a valid signature by it returns CertificateAuthorityReuse and leaves
\* the weight and the stashed signers as they were.
C4_ReuseRejected ==
    [][\A authority \in Names :
          (/\ authority \in StashAuthorities(agg.signature_stash)
           /\ weight(committee, authority) > 0
           /\ ValidAppend(authority))
          => /\ res' = "CertificateAuthorityReuse"
             /\ agg'.weight = agg.weight
             /\ agg'.signature_stash = agg.signature_stash]_vars

\* An accepted authority was appended again and turned away.
C4_Witness ==
    /\ call.op = "append"
    /\ res = "CertificateAuthorityReuse"
    /\ call.authority \in StashAuthorities(agg.signature_stash)
    /\ weight(committee, call.authority) > 0

\* C5: every append of a valid signature by an authority of weight 0 returns
\* UnknownSigner, the first and every repeated one, and adds nothing to the
\* weight or the stash.
C5_UnknownSignerEveryTime ==
    [][\A authority \in Names :
          (weight(committee, authority) = 0 /\ ValidAppend(authority))
          => /\ res' = "UnknownSigner"
             /\ agg'.weight = agg.weight
             /\ agg'.signature_stash = agg.signature_stash]_vars

\* C6: over a transaction whose sender signature is valid, every certificate
\* an append returns verifies against the committee, and its signers hold at
\* least quorum_threshold.
C6_CertificateVerifies ==
    (ReturnedCertificate /\ SenderSigValid) =>
        /\ CertifiedTransactionVerify(ret, committee) = "Ok"
        /\ StakeOf(committee, CertifiedBy(ret)) >= quorum_threshold(committee)

\* A certificate was returned over a validly signed transaction.
C6_Witness ==
    /\ ReturnedCertificate
    /\ SenderSigValid
    /\ ~ret.is_verified
    /\ Cardinality(CertifiedBy(ret)) >= 2

IsPrefix(s, t) == Len(s) <= Len(t) /\ SubSeq(t, 1, Len(s)) = s

\* The kept certificate was returned when its aggregator first reached quorum.
KeptAtFirstCrossing ==
    /\ kept.cert.variant = "Certified"
    /\ StakeOf(committee, {kept.order[k] : k \in 1..(Len(kept.order) - 1)})
         < quorum_threshold(committee)

\* An append returned a certificate after the aggregator had returned the
\* kept one at its first crossing.
LaterCertificate ==
    /\ ReturnedCertificate
    /\ KeptAtFirstCrossing
    /\ IsPrefix(kept.order, StashOrder(agg))
    /\ Len(kept.order) < Len(agg.signature_stash)

\* C7 as stated: every certificate returned after the first crossing has the
\* signer set and aggregate signature of the one returned at the crossing.
C7_CertificateBuiltOnce ==
    LaterCertificate => ret.auth_sign_info = kept.cert.auth_sign_info

\* C7 amended: appends of new authorities after the first crossing are
\* accepted and each returns a certificate rebuilt from the whole stash; its
\* signers are all the authorities accepted so far, the signers of the first
\* crossing and those accepted since.
C7_CertificateRebuilt ==
    LaterCertificate =>
        /\ CertifiedBy(ret) = StashAuthorities(agg.signature_stash)
        /\ CertifiedBy(kept.cert) \subseteq CertifiedBy(ret)
        /\ CertifiedBy(kept.cert) # CertifiedBy(ret)
        /\ Len(ret.auth_sign_info.signature) = Len(agg.signature_stash)

\* A certificate returned after the first crossing.
C7_Witness == LaterCertificate

\* C8: two aggregators over the same transaction and committee, fed valid
\* signatures of the same set of authorities in different orders, return
\* certificates with the same signer bitmap.
C8_BitmapIndependentOfOrder ==
    (/\ ReturnedCertificate
     /\ kept.cert.variant = "Certified"
     /\ {kept.order[k] : k \in 1..Len(kept.order)} = StashAuthorities(agg.signature_stash))
    => ret.auth_sign_info.signers_map = kept.cert.auth_sign_info.signers_map

\* Two aggregators reached quorum with the last element of the same set, fed
\* in two different orders.
C8_Witness ==
    /\ ReturnedCertificate
    /\ KeptAtFirstCrossing
    /\ StakeBefore < quorum_threshold(committee)
    /\ {kept.order[k] : k \in 1..Len(kept.order)} = StashAuthorities(agg.signature_stash)
    /\ kept.order # StashOrder(agg)
    /\ kept.order[1] # StashOrder(agg)[1]

-----------------------------------------------------------------------------
(* Properties of the envelope *)

\* C9: a transaction keeps its digest through the signing states: the
\* envelope made by SignedTransaction::new, CertifiedTransaction::new or
\* to_transaction has the digest of the envelope it was made from.
C9_DigestKeptThroughStates ==
    [][(call'.op \in {"sign", "certify", "to_transaction"})
          => digest(env') = digest(env)]_vars

\* C10: in every reachable state of an envelope, digest() is the sha3_hash
\* of its current signed_data.
C10_DigestIsHashOfSignedData ==
    env.variant # "None" => digest(env) = sha3_hash(env.signed_data)

-----------------------------------------------------------------------------
(* Properties of concurrent digest() *)

\* C11: in every interleaving of threads calling digest() on one envelope
\* (transaction or effects), all calls return the same value, the cell is
\* written at most once, the hash is computed at most once, and no call
\* returns an empty digest.
C11_ConcurrentDigestAgrees ==
    /\ Cardinality(once.returned) <= 1
    /\ NoDigest \notin once.returned
    /\ once.writes <= 1
    /\ once.hashes <= 1
    /\ once.returned \subseteq {Cell(env)}
    /\ \A t \in Threads :
          (threads[t].pc = "idle" /\ threads[t].calls > 0)
              => threads[t].ret = Cell(env)

\* Two threads raced on an empty cell: one initialized it, the other queued
\* behind it, and both have returned; each has called digest() again since.
C11_Witness ==
    /\ once.writes = 1
    /\ \A t \in Threads : threads[t].pc = "idle" /\ threads[t].calls = MaxCalls
    /\ \E t \in Threads : threads[t].waited

-----------------------------------------------------------------------------
(* Properties of input_objects and validity_check *)

\* Two entries of a list of input objects have the same object id.
RepeatsId(list) ==
    \E j, k \in 1..Len(list) : j < k /\ object_id(list[j]) = object_id(list[k])

\* C12: whenever td.input_objects() returns Ok(list), for a Single or a Batch
\* kind and any gas_payment, no two entries of list have the same object_id.
C12_InputObjectsDistinct ==
    (call.op = "input_objects" /\ out.err = "Ok") => ~RepeatsId(out.val)

\* C13: for a single kind, input_objects() returns DuplicateObjectRefInput
\* exactly when the inputs collected for the kind repeat an object_id, and
\* otherwise the collected list in order; for a Batch, an error in a member
\* is the result of the whole call, with no list.
C13_DuplicateInputRule ==
    call.op = "kind_input_objects" =>
        IF td.kind.tag = "Single"
        THEN /\ (out.err = "DuplicateObjectRefInput")
                    <=> RepeatsId(CollectedInputs(td.kind.single))
             /\ (out.err # "DuplicateObjectRefInput")
                    => out = Ok(CollectedInputs(td.kind.single))
        ELSE (\E k \in 1..Len(td.kind.batch) :
                  RepeatsId(CollectedInputs(td.kind.batch[k])))
             => out = Err("DuplicateObjectRefInput")

\* A batch whose first member has inputs and whose second is a Pay listing a
\* coin twice returned the error.
C13_Witness ==
    /\ call.op = "kind_input_objects"
    /\ td.kind.tag = "Batch"
    /\ Len(td.kind.batch) = 2
    /\ td.kind.batch[1].tag = "TransferObject"
    /\ td.kind.batch[2].tag = "Pay"
    /\ RepeatsId(CollectedInputs(td.kind.batch[2]))
    /\ out.err = "DuplicateObjectRefInput"

\* C14: validity_check() returns InvalidBatchTransaction exactly for a Batch
\* that is empty or has a TransferSui, Publish or ChangeEpoch member, and Ok
\* for every other Batch and every Single kind.
C14_ValidityCheck ==
    call.op = "validity_check" =>
        LET bad == /\ td.kind.tag = "Batch"
                   /\ \/ Len(td.kind.batch) = 0
                      \/ \E k \in 1..Len(td.kind.batch) :
                            td.kind.batch[k].tag
                                \in {"TransferSui", "Publish", "ChangeEpoch"}
        IN  /\ bad => out.err = "InvalidBatchTransaction"
            /\ ~bad => out.err = "Ok"

\* Batch([Call, TransferSui]) was turned away.
C14_Witness ==
    /\ call.op = "validity_check"
    /\ td.kind.tag = "Batch"
    /\ Len(td.kind.batch) = 2
    /\ td.kind.batch[1].tag = "Call"
    /\ td.kind.batch[2].tag = "TransferSui"
    /\ out.err = "InvalidBatchTransaction"

\* C15: input_objects() of a Single(ChangeEpoch) is the one-element list of
\* the shared system state object, without a gas entry; of every other kind
\* it is the kind's inputs followed by the gas payment as last element.
C15_GasAppendedUnlessSystem ==
    (call.op = "input_objects" /\ out.err = "Ok") =>
        IF td.kind.tag = "Single" /\ td.kind.single.tag = "ChangeEpoch"
        THEN out.val = <<SharedMoveObject(SUI_SYSTEM_STATE_OBJECT_ID)>>
        ELSE /\ Len(out.val) >= 1
             /\ out.val[Len(out.val)] = ImmOrOwnedMoveObject(td.gas_payment)
             /\ SubSeq(out.val, 1, Len(out.val) - 1)
                    = Flatten([k \in 1..Len(single_transactions(td.kind)) |->
                                  CollectedInputs(single_transactions(td.kind)[k])])

\* input_objects() was called on a ChangeEpoch transaction.
C15_Witness ==
    /\ call.op = "input_objects"
    /\ td.kind.tag = "Single"
    /\ td.kind.single.tag = "ChangeEpoch"
    /\ out.err = "Ok"

-----------------------------------------------------------------------------
(* Properties of verification *)

\* The sender signature obligation of the envelope: the flag, the system
\* kind, or a signature over the data by the sender's key.
SenderObligation ==
    \/ env.is_verified
    \/ env.signed_data.data.kind = "ChangeEpoch"
    \/ /\ env.signed_data.tx_signature.signer = env.signed_data.data.sender
       /\ env.signed_data.tx_signature.over = env.signed_data.data

\* C16: verify_sender_signature() returns Ok when is_verified is set or the
\* kind is Single(ChangeEpoch), whatever the signature; otherwise it returns
\* Ok exactly when tx_signature is a signature over signed_data.data by the
\* key of signed_data.data.sender.
C16_SenderSignatureCheck ==
    call.op = "verify_sender_signature" =>
        /\ (env.is_verified \/ env.signed_data.data.kind = "ChangeEpoch")
               => res = "Ok"
        /\ (res = "Ok") <=> SenderObligation
        /\ res \in {"Ok", "InvalidSignature"}

\* An unverified system transaction carrying a signature that signs nothing
\* passed the check.
C16_Witness ==
    /\ call.op = "verify_sender_signature"
    /\ ~env.is_verified
    /\ env.signed_data.data.kind = "ChangeEpoch"
    /\ env.signed_data.tx_signature.signer # env.signed_data.data.sender
    /\ res = "Ok"

\* C17: for every CertifiedTransaction value, whatever its bitmap, aggregate
\* and is_verified flag, and every committee, verify returns Ok only if the
\* sender obligation holds, every bit names an authority of the committee,
\* the aggregate is valid over signed_data and the signers hold at least
\* quorum_threshold.
C17_CertifiedVerifySound ==
    (call.op = "verify_certified" /\ res = "Ok") =>
        LET info == env.auth_sign_info
        IN  /\ SenderObligation
            /\ \A i \in info.signers_map : HasIndex(committee, i)
            /\ AggregateVerify(info.signature,
                               BitmapSigners(info.signers_map, committee),
                               env.signed_data)
            /\ StakeOf(committee, BitmapSigners(info.signers_map, committee))
                   >= quorum_threshold(committee)

\* C18: SignedTransaction.verify(committee) returns Ok exactly when the
\* sender obligation holds and auth_sign_info is a signature over signed_data
\* by the named authority, of non-zero stake in the committee, in the
\* committee's epoch; for a transaction built by new_change_epoch only the
\* authority signature check decides.
C18_SignedVerify ==
    call.op = "verify_signed" =>
        LET info == env.auth_sign_info
            authority_ok ==
                /\ info.epoch = committee.epoch
                /\ weight(committee, info.authority) > 0
                /\ info.signature.signer = info.authority
                /\ info.signature.over = env.signed_data
        IN  /\ (res = "Ok") <=> (SenderObligation /\ authority_ok)
            /\ (\E epoch \in {1, 2}, authority \in Names, secret \in Names :
                    env = new_change_epoch(epoch, authority, secret))
               => ((res = "Ok") <=> authority_ok)

\* A transaction built by new_change_epoch for the committee's epoch by one
\* of its authorities verified.
C18_Witness ==
    /\ call.op = "verify_signed"
    /\ \E authority \in Names : env = new_change_epoch(committee.epoch, authority, authority)
    /\ res = "Ok"

-----------------------------------------------------------------------------
(* Properties of comparison and serialization *)

\* env and other carry the same signed_data and auth_sign_info.
SameContent ==
    /\ env.signed_data = other.signed_data
    /\ env.auth_sign_info = other.auth_sign_info

\* C19: two envelopes with equal signed_data and auth_sign_info are equal,
\* hash equally and serialize to the same bytes whatever their digest cache
\* and is_verified flag, and a deserialized envelope has an empty cache and
\* is_verified false.
C19_CacheAndFlagUnobservable ==
    /\ (call.op = "eq" /\ SameContent) => out = TRUE
    /\ (call.op \in {"hash", "serialize"} /\ SameContent) => out[1] = out[2]
    /\ call.op = "deserialize" =>
           /\ env.transaction_digest = NoDigest
           /\ ~env.is_verified
           /\ Serialize(env) = Serialize(Deserialize(Serialize(env)))

\* Two signed transactions of the same content, one with its digest cached
\* and its flag set and the other without, compared equal.
C19_Witness ==
    /\ call.op = "eq"
    /\ env.variant = "Signed"
    /\ SameContent
    /\ env.transaction_digest # NoDigest /\ other.transaction_digest = NoDigest
    /\ env.is_verified /\ ~other.is_verified
    /\ out = TRUE

\* C20: two SignedTransaction values with the same TransactionData and the
\* same auth_sign_info compare equal even when their tx_signature differs.
C20_EqIgnoresSenderSignature ==
    (/\ call.op = "eq"
     /\ env.variant = "Signed"
     /\ env.signed_data.data = other.signed_data.data
     /\ env.auth_sign_info = other.auth_sign_info)
    => out = TRUE

-----------------------------------------------------------------------------
(* Properties of aggregator construction and of the order of checks *)

\* The initial state of an aggregator over the client's transaction: nothing
\* accepted, an empty certificate for the committee's epoch.
FreshAggregator(a) ==
    /\ a.live
    /\ a.weight = 0
    /\ a.used_authorities = {}
    /\ a.signature_stash = <<>>
    /\ a.partial.variant = "Certified"
    /\ a.partial.signed_data = env.signed_data
    /\ a.partial.auth_sign_info.epoch = committee.epoch
    /\ a.partial.auth_sign_info.signers_map = {}
    /\ a.partial.auth_sign_info.signature = <<>>

\* C23: try_new verifies the sender signature before building anything: it
\* returns the verification error and no aggregator when the verification
\* fails, and otherwise an aggregator in the initial state new_unsafe gives;
\* new_unsafe never fails.
C23_TryNewVerifiesFirst ==
    [][/\ call'.op = "try_new" =>
            /\ (res' = "Ok") <=> SenderObligation
            /\ ~SenderObligation => (res' = "InvalidSignature" /\ agg' = agg)
            /\ SenderObligation => FreshAggregator(agg')
       /\ call'.op = "new_unsafe" => (res' = "Ok" /\ FreshAggregator(agg'))]_vars

\* try_new turned a transaction with a bad sender signature away, no
\* aggregator having been built.
C23_Witness ==
    /\ call.op = "try_new"
    /\ res = "InvalidSignature"
    /\ ~agg.live

\* C25: append checks the signature first, then reuse, then the weight: an
\* invalid signature returns InvalidSignature and leaves the aggregator as it
\* was even when the authority has already contributed or has zero weight,
\* and a valid signature of a used authority returns
\* CertificateAuthorityReuse whatever its weight.
C25_AppendCheckOrder ==
    [][\A signature \in SigsOffered(env.signed_data) :
          AppendCall(call'.authority, signature) =>
              IF ~AuthoritySigVerify(signature, agg.partial.signed_data,
                                     call'.authority)
              THEN res' = "InvalidSignature" /\ agg' = agg
              ELSE call'.authority \in agg.used_authorities
                       => res' = "CertificateAuthorityReuse"]_vars

\* An authority that had contributed offered an invalid signature and got
\* InvalidSignature.
C25_Witness ==
    /\ call.op = "append"
    /\ res = "InvalidSignature"
    /\ call.authority \in StashAuthorities(agg.signature_stash)

\* C29: in every reachable state of an aggregator, weight is the sum of the
\* committee weights of the stashed authorities, each stashed once and of
\* non-zero weight, every stashed authority is in used_authorities, and
\* weight is at most the committee's total stake; no append decreases it.
C29_AggregatorInvariants ==
    /\ [](agg.live =>
            LET stash == agg.signature_stash
            IN  /\ agg.weight = StakeOf(committee, StashAuthorities(stash))
                /\ \A j, k \in 1..Len(stash) :
                       j # k => stash[j].authority # stash[k].authority
                /\ \A k \in 1..Len(stash) : weight(committee, stash[k].authority) > 0
                /\ StashAuthorities(stash) \subseteq agg.used_authorities
                /\ agg.weight <= total_stake(committee))
    /\ [][call'.op = "append" => agg'.weight >= agg.weight]_vars

\* An aggregator holding two signatures, and an unknown signer among its used
\* authorities.
C29_Witness ==
    /\ agg.live
    /\ Len(agg.signature_stash) >= 2
    /\ agg.weight >= 2
    /\ agg.used_authorities # StashAuthorities(agg.signature_stash)

-----------------------------------------------------------------------------
(* Certificates of one committee *)

\* The client, a certificate kept, goes on with another transaction.
NextTransaction ==
    /\ kept.cert.variant = "Certified"
    /\ env.signed_data.data = UserData
    /\ env' = TransactionNew(SystemData, env.signed_data.tx_signature)
    /\ agg' = NoAgg
    /\ call' = Call("next_transaction", 0)
    /\ res' = "Ok"
    /\ ret' = NoEnv
    /\ UNCHANGED <<committee, kept, otherVars>>

\* Aggregators fed valid signatures, over one transaction and then another.
NextQuorum ==
    \/ NewUnsafe
    \/ \E authority \in Names : ValidAppend(authority)
    \/ KeepCertificate
    \/ NextTransaction

SpecQuorum == InitKeep /\ [][NextQuorum]_vars

\* C28: any two certificates aggregators produce for one committee, for the
\* same or for different transactions, have signer sets whose common
\* authorities hold at least validity_threshold = floor(total_stake/3) + 1.
C28_QuorumIntersection ==
    (ReturnedCertificate /\ kept.cert.variant = "Certified") =>
        StakeOf(committee, CertifiedBy(ret) \cap CertifiedBy(kept.cert))
            >= validity_threshold(committee)

\* Two certificates for different transactions, neither signer set holding
\* the other.
C28_Witness ==
    /\ ReturnedCertificate
    /\ kept.cert.variant = "Certified"
    /\ ret.signed_data # kept.cert.signed_data
    /\ ~(CertifiedBy(ret) \subseteq CertifiedBy(kept.cert))
    /\ ~(CertifiedBy(kept.cert) \subseteq CertifiedBy(ret))

-----------------------------------------------------------------------------
(* Aggregation under signers that do sign *)

\* The sets of authorities that hold a quorum of the stake with no authority
\* to spare: whoever holds a quorum includes one of them.
QuorumSets(c) ==
    {Q \in SUBSET Names :
        /\ StakeOf(c, Q) >= quorum_threshold(c)
        /\ \A a \in Q : StakeOf(c, Q \ {a}) < quorum_threshold(c)}

\* One aggregator for a client transaction, and a set of authorities holding
\* a quorum of the stake that are going to sign it.
InitLive ==
    /\ committee \in Committees
    /\ env = TransactionNew(UserData, [signer |-> "alice", over |-> UserData])
    /\ signers \in QuorumSets(committee)
    /\ agg = NoAgg
    /\ call = Call("init", 0)
    /\ res = "Ok"
    /\ ret = NoEnv
    /\ kept = NoKept
    /\ threads = IdleThreads
    /\ once = OnceFresh
    /\ td = NoData
    /\ out = NoResult
    /\ other = NoEnv

\* The one aggregator is built.
NewAggregator == ~agg.live /\ NewUnsafe

\* An authority that is going to sign appends its valid signature, once.
SignerAppend(authority) ==
    /\ authority \in signers
    /\ authority \notin agg.used_authorities
    /\ ValidAppend(authority)

\* An append that fails: of an invalid signature, of a repeated authority or
\* of an unknown signer.
FailingAppend(authority, signature) ==
    /\ AppendCall(authority, signature)
    /\ res' \in AppendErrors

NextLive ==
    \/ NewAggregator
    \/ \E authority \in Names : SignerAppend(authority)
    \/ \E authority \in Names, signature \in SigsOffered(env.signed_data) :
         FailingAppend(authority, signature)

\* Every signer does append its signature at some time; the other appends
\* come in any number and at any time.
SpecLive ==
    /\ InitLive
    /\ [][NextLive]_vars
    /\ WF_vars(NewAggregator)
    /\ \A authority \in Names : WF_vars(SignerAppend(authority))

\* C30: when each authority of a set holding at least quorum_threshold stake
\* appends a valid signature to one aggregator at some time, then, however
\* these appends interleave with failing ones (invalid signatures, repeated
\* authorities, unknown signers), some append returns Ok(Some(certificate)).
C30_AggregationLive == <>ReturnedCertificate

\* A certificate came out of an aggregator that had also taken a failing
\* append of an unknown signer, some member not being among the signers.
C30_Witness ==
    /\ ReturnedCertificate
    /\ signers # Members(committee)
    /\ agg.used_authorities # StashAuthorities(agg.signature_stash)

-----------------------------------------------------------------------------
(* Verification repeated *)

\* Mutant: a successful verify sets the flag.
AfterVerifyFlagged(e, result) ==
    IF result = "Ok" THEN [e EXCEPT !.is_verified = TRUE] ELSE e

\* verify and verify_sender_signature take &self: the envelope is afterwards
\* what it was.
AfterVerify(e, result) == e

\* A first call of a verify function on env, or a second one; out then holds
\* what the first call returned.
VerifyOnceMore(op, result) ==
    /\ \/ call.op = "init" /\ out' = out
       \/ call.op = op /\ out = NoResult /\ out' = Ok(res)
    /\ call' = Call(op, 0)
    /\ res' = result
    /\ env' = AfterVerify(env, result)
    /\ UNCHANGED <<committee, agg, ret, kept, digestVars, td, other, signers>>

\* Transaction::verify()
VerifyTransactionOnceMore ==
    /\ env.variant = "Transaction"
    /\ VerifyOnceMore("verify", TransactionVerify(env))

\* SignedTransaction::verify(&committee)
VerifySignedOnceMore ==
    /\ env.variant = "Signed"
    /\ VerifyOnceMore("verify_signed", SignedTransactionVerify(env, committee))

\* CertifiedTransaction::verify(&committee)
VerifyCertifiedOnceMore ==
    /\ env.variant = "Certified"
    /\ VerifyOnceMore("verify_certified", CertifiedTransactionVerify(env, committee))

NextVerifyTwice ==
    VerifyTransactionOnceMore \/ VerifySignedOnceMore \/ VerifyCertifiedOnceMore

SpecVerifyTwice == InitVerify /\ [][NextVerifyTwice]_vars

\* C24: a call of verify on a Transaction, a SignedTransaction or a
\* CertifiedTransaction leaves signed_data, auth_sign_info and is_verified as
\* they were, and a second call with the same committee returns what the first
\* one returned, Ok after Ok in particular.
C24_VerifyReadOnly ==
    /\ [][call'.op \in {"verify", "verify_signed", "verify_certified"} =>
            /\ env'.signed_data = env.signed_data
            /\ env'.auth_sign_info = env.auth_sign_info
            /\ env'.is_verified = env.is_verified]_vars
    /\ [](out # NoResult => out = Ok(res))

\* An unverified certificate verified twice, Ok both times, its flag still
\* unset.
C24_Witness ==
    /\ call.op = "verify_certified"
    /\ out = Ok("Ok")
    /\ res = "Ok"
    /\ ~env.is_verified

-----------------------------------------------------------------------------
(* Properties of shared input objects *)

\* The ids of the SharedMoveObject entries of a list of input objects, in
\* order.
SharedIdsOf(list) ==
    LET shared == SelectSeq(list, LAMBDA o : o.kind = "SharedMoveObject")
    IN  [k \in 1..Len(shared) |-> object_id(shared[k])]

\* C26: for every kind, single or batch, for which input_objects() succeeds,
\* shared_input_objects() yields exactly the ids of the SharedMoveObject
\* entries of input_objects(), and contains_shared_object() is true exactly
\* when input_objects() has a SharedMoveObject entry.
C26_SharedDerivedFromInputs ==
    (call.op = "shared_input_objects" /\ KindInputObjects(td.kind).err = "Ok") =>
        /\ out.val = SharedIdsOf(KindInputObjects(td.kind).val)
        /\ contains_shared_object(td.kind)
               <=> (SharedIdsOf(KindInputObjects(td.kind).val) # <<>>)

-----------------------------------------------------------------------------
(* The objects a transaction wrote *)

\* ObjectDigest: the two sentinels and the digest of an object.
OBJECT_DIGEST_DELETED == "deleted"
OBJECT_DIGEST_WRAPPED == "wrapped"
ObjectDigests == {OBJECT_DIGEST_DELETED, OBJECT_DIGEST_WRAPPED, "object"}

\* The versions of written objects: a version and its successor.
WrittenVersions == {1, 2}

\* ObjectRef with its digest.
WrittenRefs ==
    [object_id : ObjectIDs, version : WrittenVersions, digest : ObjectDigests]

\* SequenceNumber::increment
increment(seq) == seq + 1

\* An entry of the effects: a reference in one of the five lists. The digest
\* of an entry of deleted or wrapped is the list's sentinel.
EffectsEntries ==
    [list : {"mutated", "created", "unwrapped"},
     ref : {r \in WrittenRefs : r.digest # OBJECT_DIGEST_WRAPPED}]
    \cup {[list |-> "deleted", ref |-> r] :
             r \in {w \in WrittenRefs : w.digest = OBJECT_DIGEST_DELETED}}
    \cup {[list |-> "wrapped", ref |-> r] :
             r \in {w \in WrittenRefs : w.digest = OBJECT_DIGEST_WRAPPED}}

RECURSIVE EntrySets(_)
\* The sets of at most n entries.
EntrySets(n) ==
    IF n = 0 THEN {{}}
    ELSE EntrySets(n - 1)
         \cup {S \cup {e} : S \in EntrySets(n - 1), e \in EffectsEntries}

RECURSIVE ListOf(_)
\* The references of a set in some list order.
ListOf(S) ==
    IF S = {} THEN <<>>
    ELSE LET r == CHOOSE x \in S : TRUE IN <<r>> \o ListOf(S \ {r})

\* TransactionEffects, as far as the lists of written objects go (owners left
\* out), holding the entries S.
TransactionEffects(S) ==
    [list \in {"mutated", "created", "unwrapped", "deleted", "wrapped"} |->
        ListOf({e.ref : e \in {x \in S : x.list = list}})]

\* TransactionEffects::all_mutated: mutated, then created, then unwrapped.
all_mutated(effects) == effects.mutated \o effects.created \o effects.unwrapped

\* Some entry of a list of old references is obj_ref's id one version before.
AnyPrevious(list, obj_ref) ==
    \E k \in 1..Len(list) :
        /\ list[k].object_id = obj_ref.object_id
        /\ increment(list[k].version) = obj_ref.version

\* Mutant: the wrapped case is missing.
IsObjectMutatedHereNoWrapped(effects, obj_ref) ==
    \/ \E k \in 1..Len(all_mutated(effects)) : all_mutated(effects)[k] = obj_ref
    \/ /\ obj_ref.digest = OBJECT_DIGEST_DELETED
       /\ AnyPrevious(effects.deleted, obj_ref)

\* TransactionEffects::is_object_mutated_here
is_object_mutated_here(effects, obj_ref) ==
    \/ \E k \in 1..Len(all_mutated(effects)) : all_mutated(effects)[k] = obj_ref
    \/ /\ obj_ref.digest = OBJECT_DIGEST_DELETED
       /\ AnyPrevious(effects.deleted, obj_ref)
    \/ /\ obj_ref.digest = OBJECT_DIGEST_WRAPPED
       /\ AnyPrevious(effects.wrapped, obj_ref)

\* The effects of some transaction and a reference to ask about; td holds
\* both.
InitEffects ==
    /\ committee = [epoch |-> 1, voting_rights |-> [a \in Names |-> 1]]
    /\ env = NoEnv
    /\ agg = NoAgg
    /\ call = Call("init", 0)
    /\ res = "Ok"
    /\ ret = NoEnv
    /\ kept = NoKept
    /\ threads = IdleThreads
    /\ once = OnceFresh
    /\ td \in {[effects |-> TransactionEffects(S), obj_ref |-> r] :
                  S \in EntrySets(MaxRefs), r \in WrittenRefs}
    /\ out = NoResult
    /\ other = NoEnv
    /\ signers = {}

\* td.effects.is_object_mutated_here(td.obj_ref)
CallIsObjectMutatedHere ==
    /\ call.op = "init"
    /\ call' = Call("is_object_mutated_here", 0)
    /\ out' = Ok(is_object_mutated_here(td.effects, td.obj_ref))
    /\ UNCHANGED <<committee, env, agg, res, ret, kept, digestVars, td, other, signers>>

NextEffects == CallIsObjectMutatedHere

SpecEffects == InitEffects /\ [][NextEffects]_vars

\* The references of a list.
RefsOf(list) == {list[k] : k \in 1..Len(list)}

\* C21: is_object_mutated_here(ref) is true exactly when ref is a reference
\* in mutated, created or unwrapped, or ref's digest is the deleted sentinel
\* and deleted has an entry of the same id with version + 1 = ref's version,
\* or ref's digest is the wrapped sentinel and wrapped has such an entry.
C21_MutatedHere ==
    call.op = "is_object_mutated_here" =>
        LET ref == td.obj_ref
            effects == td.effects
            before(S) == \E r \in S : r.object_id = ref.object_id
                                      /\ r.version + 1 = ref.version
        IN  out.val <=>
                \/ ref \in RefsOf(effects.mutated) \cup RefsOf(effects.created)
                               \cup RefsOf(effects.unwrapped)
                \/ ref.digest = "deleted" /\ before(RefsOf(effects.deleted))
                \/ ref.digest = "wrapped" /\ before(RefsOf(effects.wrapped))

\* A reference with the wrapped sentinel, written nowhere, was found through
\* the entry of wrapped one version before it, next to a deleted entry.
C21_Witness ==
    /\ call.op = "is_object_mutated_here"
    /\ out.val = TRUE
    /\ td.obj_ref.digest = "wrapped"
    /\ all_mutated(td.effects) = <<>>
    /\ td.effects.deleted # <<>>

-----------------------------------------------------------------------------
(* Consensus transactions *)

RECURSIVE to_be_bytes(_, _)
\* u64::to_be_bytes: the n bytes of v, the most significant first.
to_be_bytes(v, n) ==
    IF n = 0 THEN <<>> ELSE to_be_bytes(v \div 256, n - 1) \o <<v % 256>>

RECURSIVE read_u64(_)
\* ReadBytesExt::read_u64::<BigEndian>
read_u64(bytes) ==
    IF bytes = <<>> THEN 0
    ELSE 256 * read_u64(SubSeq(bytes, 1, Len(bytes) - 1)) + bytes[Len(bytes)]

RECURSIVE DefaultHash(_)
\* DefaultHasher over the words hashed in turn: a fixed function of them,
\* not a cryptographic one.
DefaultHash(words) ==
    IF words = <<>> THEN 5
    ELSE (DefaultHash(SubSeq(words, 1, Len(words) - 1)) * 131 + words[Len(words)])
             % 65521

\* CheckpointFragment, as far as its identity goes.
CheckpointFragments ==
    [proposer_sequence_number : {1}, proposer : Names, other : Names]

\* CheckpointFragment::verify: proposer and other are of the committee.
FragmentVerify(fragment, c) ==
    IF weight(c, fragment.proposer) > 0 /\ weight(c, fragment.other) > 0
    THEN "Ok" ELSE "UnknownSigner"

\* No ConsensusTransaction built.
NoMessage == [tracking_id |-> <<>>, kind |-> [tag |-> "None"]]

\* ConsensusTransaction::new_certificate_message; digest() fills the cell of
\* the certificate.
new_certificate_message(authority, certificate) ==
    [tracking_id |-> to_be_bytes(DefaultHash(<<digest(certificate), authority>>), 8),
     kind |-> [tag |-> "UserTransaction",
               certificate |-> AfterDigest(certificate)]]

\* ConsensusTransaction::new_checkpoint_message
new_checkpoint_message(fragment) ==
    [tracking_id |->
         to_be_bytes(DefaultHash(<<fragment.proposer_sequence_number,
                                   fragment.proposer, fragment.other>>), 8),
     kind |-> [tag |-> "Checkpoint", fragment |-> fragment]]

\* ConsensusTransaction::get_tracking_id
get_tracking_id(message) == read_u64(message.tracking_id)

\* Mutant: a message whose tracking id reads 0 is rejected.
ConsensusVerifyTracked(message, c) ==
    IF get_tracking_id(message) = 0 THEN "InvalidSignature"
    ELSE IF message.kind.tag = "UserTransaction"
    THEN CertifiedTransactionVerify(message.kind.certificate, c)
    ELSE FragmentVerify(message.kind.fragment, c)

\* ConsensusTransaction::verify
ConsensusVerify(message, c) ==
    IF message.kind.tag = "UserTransaction"
    THEN CertifiedTransactionVerify(message.kind.certificate, c)
    ELSE FragmentVerify(message.kind.fragment, c)

\* Tracking ids a message may carry instead of its own.
TrackingIds == {to_be_bytes(v, 8) : v \in {0, 258}}

\* A node holds a certificate as received, or none; td holds the message it
\* builds.
InitConsensus ==
    /\ committee = [epoch |-> 1, voting_rights |-> [a \in Names |-> 1]]
    /\ env \in {e \in ReceivedEnvelopes : e.variant = "Certified"} \cup {NoEnv}
    /\ agg = NoAgg
    /\ call = Call("init", 0)
    /\ res = "Ok"
    /\ ret = NoEnv
    /\ kept = NoKept
    /\ threads = IdleThreads
    /\ once = OnceFresh
    /\ td = NoMessage
    /\ out = NoResult
    /\ other = NoEnv
    /\ signers = {}

\* ConsensusTransaction::new_certificate_message(&authority, env)
NewCertificateMessage(authority) ==
    /\ call.op = "init"
    /\ env.variant = "Certified"
    /\ call' = Call("new_certificate_message", authority)
    /\ td' = new_certificate_message(authority, env)
    /\ UNCHANGED <<committee, env, agg, res, ret, kept, digestVars, out, other, signers>>

\* ConsensusTransaction::new_checkpoint_message(fragment)
NewCheckpointMessage(fragment) ==
    /\ call.op = "init"
    /\ env = NoEnv
    /\ call' = Call("new_checkpoint_message", fragment.proposer)
    /\ td' = new_checkpoint_message(fragment)
    /\ UNCHANGED <<committee, env, agg, res, ret, kept, digestVars, out, other, signers>>

\* tracking_id is a public field: message.tracking_id = id
AssignTrackingId(id) ==
    /\ call.op \in {"new_certificate_message", "new_checkpoint_message"}
    /\ call' = Call("assign_tracking_id", call.authority)
    /\ td' = [td EXCEPT !.tracking_id = id]
    /\ UNCHANGED <<committee, env, agg, res, ret, kept, digestVars, out, other, signers>>

\* A call on the message built.
MessageCall(op, result) ==
    /\ call.op \in {"new_certificate_message", "new_checkpoint_message",
                    "assign_tracking_id"}
    /\ call' = Call(op, call.authority)
    /\ out' = Ok(result)
    /\ UNCHANGED <<committee, env, agg, res, ret, kept, digestVars, td, other, signers>>

\* message.verify(&committee)
CallConsensusVerify == MessageCall("consensus_verify", ConsensusVerify(td, committee))

\* message.get_tracking_id()
CallGetTrackingId == MessageCall("get_tracking_id", get_tracking_id(td))

NextConsensus ==
    \/ \E authority \in Names : NewCertificateMessage(authority)
    \/ \E fragment \in CheckpointFragments : NewCheckpointMessage(fragment)
    \/ \E id \in TrackingIds : AssignTrackingId(id)
    \/ CallConsensusVerify
    \/ CallGetTrackingId

SpecConsensus == InitConsensus /\ [][NextConsensus]_vars

\* C22: verify(committee) of a ConsensusTransaction returns what verify of
\* the wrapped certificate or fragment returns, and the same for every
\* message that differs from it in tracking_id only; get_tracking_id()
\* returns the u64 whose big-endian bytes the message stores, which after
\* construction are those of the hash of the payload's identity.
C22_TrackingIdUnobserved ==
    /\ call.op = "consensus_verify" =>
           /\ out.val = (IF td.kind.tag = "UserTransaction"
                         THEN CertifiedTransactionVerify(td.kind.certificate, committee)
                         ELSE FragmentVerify(td.kind.fragment, committee))
           /\ \A id \in TrackingIds :
                  ConsensusVerify([td EXCEPT !.tracking_id = id], committee) = out.val
    /\ call.op = "get_tracking_id" => to_be_bytes(out.val, 8) = td.tracking_id
    /\ call.op = "new_certificate_message" =>
           get_tracking_id(td) =
               DefaultHash(<<digest(td.kind.certificate), call.authority>>)

\* A message wrapping a certificate that verifies, its tracking id replaced
\* by one of two bytes, verified.
C22_Witness ==
    /\ call.op = "consensus_verify"
    /\ td.kind.tag = "UserTransaction"
    /\ ~td.kind.certificate.is_verified
    /\ out.val = "Ok"
    /\ get_tracking_id(td) = 258

-----------------------------------------------------------------------------
(* The components a node starts (crates/sui-node/src/lib.rs) *)

\* NodeConfig, as far as start reads it: whether a consensus config and a
\* websocket address are present, the enable_ flags, and whether the build
\* is the simulator's (cfg!(msim)).
NodeConfigs ==
    [consensus_config : BOOLEAN, websocket_address : BOOLEAN,
     enable_gossip : BOOLEAN, enable_checkpoint : BOOLEAN,
     enable_event_processing : BOOLEAN, msim : BOOLEAN]

\* Nothing of a node exists. pc is where start or wait stands; started says
\* that start returned a SuiNode and the node is not dropped yet;
\* grpc_result is what the gRPC server task ended with, "none" until it
\* ends; the other fields say that the object exists or that the task or
\* server runs.
NoNode ==
    [pc |-> "new", started |-> FALSE, grpc_result |-> "none",
     index_store |-> FALSE, event_store |-> FALSE,
     transaction_streamer |-> FALSE, transaction_orchestrator |-> FALSE,
     batch_subsystem_handle |-> FALSE,
     post_processing_subsystem_handle |-> FALSE,
     node_sync_process |-> FALSE, gossip_handle |-> FALSE,
     execute_driver_handle |-> FALSE, checkpoint_process_handle |-> FALSE,
     validator_service |-> FALSE, grpc_server |-> FALSE,
     p2p_network |-> FALSE,
     json_rpc_service |-> FALSE, ws_subscription_service |-> FALSE]

\* What build_http_servers may be handed as the authority state: with or
\* without a transaction streamer and an event handler.
HttpStates == [transaction_streamer : BOOLEAN, event_handler : BOOLEAN]

\* The modules build_http_servers registers with the JSON-RPC server, in
\* the order of registration.
JsonRpcModules(state, transaction_orchestrator) ==
    <<"read", "fullnode", "bcs", "tx-builder">>
    \o (IF transaction_orchestrator THEN <<"tx-execution">> ELSE <<>>)
    \o (IF state.event_handler THEN <<"event-read">> ELSE <<>>)

\* The modules it registers with the WebSocket server once the transaction
\* streamer is found, in the order of registration.
WsModules(state) ==
    <<"tx-streaming">>
    \o (IF state.event_handler THEN <<"event-streaming">> ELSE <<>>)

\* Which step of build_http_servers fails, if any: JsonRpcServerBuilder::new
\* or start of either server, or the register_module of the module named.
\* A step that is not reached does not fail.
HttpFailures ==
    {"none", "json_rpc_new", "json_rpc_start", "ws_new", "ws_start",
     "read", "fullnode", "bcs", "tx-builder", "tx-execution", "event-read",
     "tx-streaming", "event-streaming"}

\* Whether the registration of one of the modules is the step that fails.
RegisterFails(modules, fails) == \E i \in 1..Len(modules) : modules[i] = fails

\* The modules registered when the step fails: those before the failing
\* registration, all of them when no registration fails.
Registered(modules, fails) ==
    {modules[i] : i \in {k \in 1..Len(modules) :
                            \A j \in 1..k : modules[j] # fails}}

\* The result of build_http_servers: the error or Ok, which of the two
\* handles are Some, the servers started on the way and the modules
\* registered with the JSON-RPC and with the WebSocket server.
HttpResult(err, json_rpc, ws, servers, modules, ws_modules) ==
    [err |-> err, json_rpc |-> json_rpc, ws |-> ws, started |-> servers,
     modules |-> modules, ws_modules |-> ws_modules]

\* Mutant: the HTTP servers are built for validators too.
BuildHttpServersForAll(state, transaction_orchestrator, config, fails) ==
    IF config.msim THEN HttpResult("Ok", FALSE, FALSE, {}, {}, {})
    ELSE HttpResult("Ok", TRUE, config.websocket_address,
                    {"json_rpc"} \cup (IF config.websocket_address THEN {"ws"} ELSE {}),
                    {}, {})

\* build_http_servers
build_http_servers(state, transaction_orchestrator, config, fails) ==
    LET modules == JsonRpcModules(state, transaction_orchestrator)
        all == Registered(modules, "none")
        ws_modules == WsModules(state)
    IN  IF config.consensus_config
        THEN HttpResult("Ok", FALSE, FALSE, {}, {}, {})
        ELSE IF config.msim
        THEN HttpResult("Ok", FALSE, FALSE, {}, {}, {})
        ELSE IF fails = "json_rpc_new"
        THEN HttpResult("ServerError", FALSE, FALSE, {}, {}, {})
        ELSE IF RegisterFails(modules, fails)
        THEN HttpResult("ServerError", FALSE, FALSE, {},
                        Registered(modules, fails), {})
        ELSE IF fails = "json_rpc_start"
        THEN HttpResult("ServerError", FALSE, FALSE, {}, all, {})
        ELSE IF ~config.websocket_address
        THEN HttpResult("Ok", TRUE, FALSE, {"json_rpc"}, all, {})
        ELSE IF fails = "ws_new"
        THEN HttpResult("ServerError", FALSE, FALSE, {"json_rpc"}, all, {})
        ELSE IF ~state.transaction_streamer
        THEN HttpResult("ExpectTransactionStreamer", FALSE, FALSE, {"json_rpc"},
                        all, {})
        ELSE IF RegisterFails(ws_modules, fails)
        THEN HttpResult("ServerError", FALSE, FALSE, {"json_rpc"}, all,
                        Registered(ws_modules, fails))
        ELSE IF fails = "ws_start"
        THEN HttpResult("ServerError", FALSE, FALSE, {"json_rpc"}, all,
                        Registered(ws_modules, "none"))
        ELSE HttpResult("Ok", TRUE, TRUE, {"json_rpc", "ws"}, all,
                        Registered(ws_modules, "none"))

\* start returns an error, or the node is dropped: what only start or the
\* node held is gone, the tasks spawned run on and keep what they own. The
\* batch service, spawned first, owns a clone of the authority state, which
\* holds the index store, the event store and the transaction streamer; the
\* gRPC server task owns the validator service moved into it; the JSON-RPC
\* server owns the clone of the transaction orchestrator registered with
\* it as a module. A server whose handle is dropped may stop, each of the
\* two for itself (json_rpc_runs, ws_runs), and what it owns goes with it.
Dropped(node, pc, json_rpc_runs, ws_runs) ==
    [node EXCEPT !.pc = pc, !.started = FALSE,
                 !.index_store = @ /\ node.batch_subsystem_handle,
                 !.event_store = @ /\ node.batch_subsystem_handle,
                 !.transaction_streamer = @ /\ node.batch_subsystem_handle,
                 !.transaction_orchestrator =
                     @ /\ node.json_rpc_service /\ json_rpc_runs,
                 !.validator_service = @ /\ node.grpc_server,
                 !.p2p_network = FALSE,
                 !.json_rpc_service = @ /\ json_rpc_runs,
                 !.ws_subscription_service = @ /\ ws_runs]

\* SuiNode::subscribe_to_transaction_orchestrator_effects
subscribe_to_transaction_orchestrator_effects(node) ==
    IF node.transaction_orchestrator THEN Ok("Receiver")
    ELSE Err("Transaction Orchestrator is not enabled in this node.")

\* A node config, no node yet; td holds both.
InitNode ==
    /\ committee = [epoch |-> 1, voting_rights |-> [a \in Names |-> 1]]
    /\ env = NoEnv
    /\ agg = NoAgg
    /\ call = Call("init", 0)
    /\ res = "Ok"
    /\ ret = NoEnv
    /\ kept = NoKept
    /\ threads = IdleThreads
    /\ once = OnceFresh
    /\ td \in [config : NodeConfigs, node : {NoNode}]
    /\ out = NoResult
    /\ other = NoEnv
    /\ signers = {}

\* SuiNode::start from one await point to the next: from pc the node
\* becomes next, or, where the stretch can fail and does, start returns the
\* error.
StartStep(pc, next, can_fail) ==
    /\ call.op \in {"init", "start"}
    /\ td.node.pc = pc
    /\ call' = Call("start", 0)
    /\ \/ /\ td' = [td EXCEPT !.node = next]
          /\ res' = IF next.started THEN "Ok" ELSE "Pending"
       \/ /\ can_fail
          /\ td' = [td EXCEPT !.node = Dropped(td.node, "failed", TRUE, TRUE)]
          /\ res' = "Err"
    /\ UNCHANGED <<committee, env, agg, ret, kept, digestVars, out, other, signers>>

\* The genesis, the committee and the stores are read and opened; the index
\* store on a full node.
StartStores ==
    StartStep("new",
              [td.node EXCEPT !.pc = "index_store",
                              !.index_store = ~td.config.consensus_config],
              TRUE)

\* Under enable_event_processing the event store is opened and initialised,
\* start waiting for both; it exists once both are done.
StartEventStore ==
    StartStep("index_store",
              [td.node EXCEPT !.pc = "stores",
                              !.event_store = td.config.enable_event_processing],
              td.config.enable_event_processing)

\* The transaction streamer under a websocket address, the authority state,
\* the system state object read.
StartState ==
    StartStep("stores",
              [td.node EXCEPT !.pc = "state",
                              !.transaction_streamer = td.config.websocket_address],
              TRUE)

\* The authority clients and the active authority; the transaction
\* orchestrator on a full node; the batch service and, with an index store
\* or event processing, the post processing are spawned.
StartSubsystems ==
    StartStep("state",
              [td.node EXCEPT !.pc = "subsystems",
                              !.transaction_orchestrator = ~td.config.consensus_config,
                              !.batch_subsystem_handle = TRUE,
                              !.post_processing_subsystem_handle =
                                  td.node.index_store
                                  \/ td.config.enable_event_processing],
              TRUE)

\* A full node syncs to the latest checkpoint and spawns the node sync
\* process; a validator spawns gossip under enable_gossip.
StartSync ==
    StartStep("subsystems",
              [td.node EXCEPT !.pc = "sync",
                              !.node_sync_process = ~td.config.consensus_config,
                              !.gossip_handle = td.config.consensus_config
                                                /\ td.config.enable_gossip],
              FALSE)

\* spawn_execute_process
StartExecute ==
    StartStep("sync", [td.node EXCEPT !.pc = "execute",
                                      !.execute_driver_handle = TRUE],
              FALSE)

\* spawn_checkpoint_process on a validator under enable_checkpoint
StartCheckpoint ==
    StartStep("execute",
              [td.node EXCEPT !.pc = "checkpoint",
                              !.checkpoint_process_handle =
                                  td.config.enable_checkpoint
                                  /\ td.config.consensus_config],
              FALSE)

\* ValidatorService::new under a consensus config
StartValidatorService ==
    StartStep("checkpoint",
              [td.node EXCEPT !.pc = "validator_service",
                              !.validator_service = td.config.consensus_config],
              td.config.consensus_config)

\* The gRPC server is bound and spawned.
StartGrpc ==
    StartStep("validator_service",
              [td.node EXCEPT !.pc = "grpc", !.grpc_server = TRUE],
              TRUE)

\* The p2p network is started.
StartP2p ==
    StartStep("grpc", [td.node EXCEPT !.pc = "p2p", !.p2p_network = TRUE], TRUE)

\* build_http_servers called by start on the state built.
StartServers(fails) ==
    build_http_servers([transaction_streamer |-> td.node.transaction_streamer,
                        event_handler |-> td.node.event_store],
                       td.node.transaction_orchestrator, td.config, fails)

\* build_http_servers has returned to start: the node is returned, or the
\* error is, the servers started left without a handle.
HttpReturn(servers, json_rpc_runs, ws_runs) ==
    IF servers.err = "Ok"
    THEN /\ td' = [td EXCEPT !.node =
                      [td.node EXCEPT
                          !.pc = "started", !.started = TRUE,
                          !.json_rpc_service = servers.json_rpc,
                          !.ws_subscription_service = servers.ws]]
         /\ res' = "Ok"
    ELSE /\ td' = [td EXCEPT !.node =
                      Dropped([td.node EXCEPT
                                  !.json_rpc_service =
                                      "json_rpc" \in servers.started,
                                  !.ws_subscription_service =
                                      "ws" \in servers.started],
                              "failed", json_rpc_runs, ws_runs)]
         /\ res' = "Err"

\* build_http_servers up to the JSON-RPC server: under a websocket address
\* the server runs and start goes on to the WebSocket server; otherwise
\* build_http_servers returns.
StartHttp ==
    /\ call.op = "start"
    /\ td.node.pc = "p2p"
    /\ call' = Call("start", 0)
    /\ \E fails \in HttpFailures, json_rpc_runs \in BOOLEAN, ws_runs \in BOOLEAN :
          LET servers == StartServers(fails)
          IN  IF "json_rpc" \in servers.started /\ td.config.websocket_address
              THEN /\ td' = [td EXCEPT !.node.pc = "json_rpc",
                                       !.node.json_rpc_service = TRUE]
                   /\ res' = "Pending"
              ELSE HttpReturn(servers, json_rpc_runs, ws_runs)
    /\ UNCHANGED <<committee, env, agg, ret, kept, digestVars, out, other, signers>>

\* build_http_servers from the JSON-RPC server started on: the WebSocket
\* server is built and started, and build_http_servers returns.
StartWebSocket ==
    /\ call.op = "start"
    /\ td.node.pc = "json_rpc"
    /\ call' = Call("start", 0)
    /\ \E fails \in HttpFailures, json_rpc_runs \in BOOLEAN, ws_runs \in BOOLEAN :
          LET servers == StartServers(fails)
          IN  /\ "json_rpc" \in servers.started
              /\ HttpReturn(servers, json_rpc_runs, ws_runs)
    /\ UNCHANGED <<committee, env, agg, ret, kept, digestVars, out, other, signers>>

\* build_http_servers(state, &transaction_orchestrator, &config, registry),
\* called on its own with any state and orchestrator.
CallBuildHttpServers ==
    /\ call.op = "init"
    /\ call' = Call("build_http_servers", 0)
    /\ \E state \in HttpStates, transaction_orchestrator \in BOOLEAN,
          fails \in HttpFailures :
          out' = build_http_servers(state, transaction_orchestrator,
                                    td.config, fails)
    /\ UNCHANGED <<committee, env, agg, res, ret, kept, digestVars, td, other, signers>>

\* node.subscribe_to_transaction_orchestrator_effects()
NodeSubscribe ==
    /\ call.op = "start"
    /\ td.node.pc = "started"
    /\ call' = Call("subscribe_to_transaction_orchestrator_effects", 0)
    /\ out' = subscribe_to_transaction_orchestrator_effects(td.node)
    /\ UNCHANGED <<committee, env, agg, res, ret, kept, digestVars, td, other, signers>>

\* The gRPC server task ends, at any time from its spawn on, start under
\* way, failed or returned, the node dropped or not: serve returned Ok or an
\* error, or the task panicked or was cancelled (a JoinError). The validator
\* service the task owned goes with it.
GrpcServerEnds ==
    /\ td.node.grpc_server
    /\ \E result \in {"Ok", "Err", "JoinError"} :
          td' = [td EXCEPT !.node.grpc_server = FALSE,
                           !.node.validator_service = FALSE,
                           !.node.grpc_result = result]
    /\ UNCHANGED <<committee, env, agg, call, res, ret, kept, digestVars, out, other, signers>>

\* wait returns what the gRPC server task ended with, either ? of
\* self.grpc_server.await?? turning an error into wait's own, and the node
\* it took is dropped.
WaitReturns(json_rpc_runs, ws_runs) ==
    /\ td' = [td EXCEPT !.node =
                  Dropped(td.node, "waited", json_rpc_runs, ws_runs)]
    /\ res' = IF td.node.grpc_result = "Ok" THEN "Ok" ELSE "Err"

\* node.wait() is called: it takes the node and returns at once when the
\* gRPC server task has ended already; it waits for the task otherwise.
NodeWait ==
    /\ td.node.pc = "started"
    /\ call' = Call("wait", 0)
    /\ IF td.node.grpc_server
       THEN /\ td' = [td EXCEPT !.node.pc = "waiting"]
            /\ res' = "Pending"
       ELSE \E json_rpc_runs \in BOOLEAN, ws_runs \in BOOLEAN :
                WaitReturns(json_rpc_runs, ws_runs)
    /\ UNCHANGED <<committee, env, agg, ret, kept, digestVars, out, other, signers>>

\* node.wait() resumes once the gRPC server task has ended.
NodeWaitResumes ==
    /\ td.node.pc = "waiting"
    /\ ~td.node.grpc_server
    /\ call' = Call("wait", 0)
    /\ \E json_rpc_runs \in BOOLEAN, ws_runs \in BOOLEAN :
          WaitReturns(json_rpc_runs, ws_runs)
    /\ UNCHANGED <<committee, env, agg, ret, kept, digestVars, out, other, signers>>

NextNode ==
    \/ StartStores
    \/ StartEventStore
    \/ StartState
    \/ StartSubsystems
    \/ StartSync
    \/ StartExecute
    \/ StartCheckpoint
    \/ StartValidatorService
    \/ StartGrpc
    \/ StartP2p
    \/ StartHttp
    \/ StartWebSocket
    \/ CallBuildHttpServers
    \/ NodeSubscribe
    \/ GrpcServerEnds
    \/ NodeWait
    \/ NodeWaitResumes

SpecNode == InitNode /\ [][NextNode]_vars

\* C27: under a config with a consensus config no transaction orchestrator,
\* no index store and neither HTTP server ever exists, build_http_servers
\* returns (None, None) and the subscribe call of the started node fails;
\* without a consensus config the gossip and the checkpoint process never
\* start, the node has a transaction orchestrator from the moment start has
\* built it until start fails or the node is dropped, the gRPC server task
\* ended or not, and its subscribe call succeeds; a WebSocket server is
\* started only if websocket_address is set.
C27_RoleFixesComponents ==
    LET node == td.node
        subscribed == call.op = "subscribe_to_transaction_orchestrator_effects"
        built == call.op = "build_http_servers"
    IN  /\ td.config.consensus_config =>
               /\ ~node.transaction_orchestrator
               /\ ~node.index_store
               /\ ~node.json_rpc_service /\ ~node.ws_subscription_service
               /\ built => (out.err = "Ok" /\ ~out.json_rpc /\ ~out.ws
                            /\ out.started = {})
               /\ subscribed => out.err # "Ok"
        /\ ~td.config.consensus_config =>
               /\ ~node.gossip_handle
               /\ ~node.checkpoint_process_handle
               /\ node.started => node.transaction_orchestrator
               /\ node.pc \in {"subsystems", "sync", "execute", "checkpoint",
                               "validator_service", "grpc", "p2p", "json_rpc"}
                      => node.transaction_orchestrator
               /\ subscribed => out.err = "Ok"
        /\ node.ws_subscription_service => td.config.websocket_address
        /\ built => ((out.ws \/ "ws" \in out.started)
                        => td.config.websocket_address)

\* A validator configured with a websocket address, gossip and checkpoints
\* started, and its subscribe call failed.
C27_Witness ==
    /\ call.op = "subscribe_to_transaction_orchestrator_effects"
    /\ td.node.started
    /\ td.config.consensus_config
    /\ td.config.websocket_address
    /\ td.node.gossip_handle /\ td.node.checkpoint_process_handle
    /\ out.err # "Ok"

====
